---- MODULE Spec2Model ----
(***************************************************************************)
(* Model of the tiered extraction pipeline and its work coordination       *)
(* (final.py): one worker process running main_from_db, the batch of       *)
(* process_url tasks it gathers, the three admission gates and the rows    *)
(* of the product_page_urls task store.                                    *)
(*                                                                         *)
(* Every await of the code is an action boundary; the synchronous code     *)
(* between two awaits (extraction, save, manifest write, write-back,       *)
(* release of the gates on leaving the `async with` blocks) runs inside    *)
(* the action of the await that resumes it.  Responses of the network,     *)
(* the renderer and the stores are inputs drawn with \E.  File writes      *)
(* (manifest, saved HTML) are taken to succeed when the file is open.      *)
(***************************************************************************)
EXTENDS Integers, FiniteSets, Sequences, TLC

\* ---------------------------------------------------------------- bounds
NItems == 2          \* rows of product_page_urls
BatchSize == 2       \* --batch-size the worker is started with
MaxProducts == 1     \* products one extraction can return
MaxCands == 2        \* API candidates find_xhr_candidates can return
MaxRecords == 2      \* products handed to one call of save_products_to_supabase
MaxSeq == 3          \* candidates handed to one call of _dedupe_products
MaxNest == 7         \* levels a product lies below the root of a JSON value
MaxCycles == 3       \* cycles of the restart wrapper

\* ------------------------------------------------------ program constants
STUCK_MINUTES == 30        \* timedelta(minutes=30)
MIN_RENDERED_LEN == 1500   \* len(rendered_html) > 1500
MAX_PRODUCTS_PER_PAGE == 50   \* int(os.getenv("MAX_PRODUCTS_PER_PAGE", "50"))
API_RETRY_ATTEMPTS == 3    \* int(os.getenv("API_RETRY_ATTEMPTS", "3"))
INSERT_ATTEMPTS == 3       \* @retry(stop=stop_after_attempt(3)) of _insert_product_with_retry
ERR_LIMIT == 500           \* str(e)[:500], error_message[:500]
NO_CONTENT_LEN == 27       \* len("no content or render failed")

Items == 1..NItems
NullTime == -1             \* claimed_at IS NULL
NoWorker == "null"         \* claimed_by IS NULL
WORKER == "host-1"         \* f"{socket.gethostname()}-{os.getpid()}"
NoLimit == -1              \* max_batches=None

Min(a, b) == IF a < b THEN a ELSE b

\* GLOBAL_CONCURRENCY, PER_DOMAIN_LIMIT and HEAVY_CONCURRENCY are read from
\* the environment when the module is loaded.  The product_page_url column
\* is reduced to the network location of each URL (urlparse(url).netloc,
\* "" for a URL without one).  The setups are chosen so that a batch can
\* exhaust each of the three gates: every URL on one site, or the last URL
\* without a network location, under a global limit of 1 or 2.
OneSite == [i \in Items |-> "a.com"]
LastBare == [i \in Items |-> IF i = NItems THEN "" ELSE "a.com"]
Setups == {[global |-> 1, domain |-> 1, heavy |-> 1, netloc |-> OneSite],
           [global |-> 1, domain |-> 1, heavy |-> 1, netloc |-> LastBare],
           [global |-> 2, domain |-> 1, heavy |-> 1, netloc |-> LastBare]}

\* lengths of the exception messages str(e) the environment produces
ErrLens == {ERR_LIMIT, ERR_LIMIT + 1}
\* lengths of the rendered documents the renderer returns
RenderLens == {MIN_RENDERED_LEN, MIN_RENDERED_LEN + 1}
\* max_batches values main_from_db is started with

VARIABLES
    GLOBAL_CONCURRENCY,  \* int(os.getenv("GLOBAL_CONCURRENCY", "16"))
    HEAVY_CONCURRENCY,   \* int(os.getenv("HEAVY_CONCURRENCY", "4"))
    PER_DOMAIN_LIMIT,    \* int(os.getenv("PER_DOMAIN_LIMIT", "3"))
    store,          \* product_page_urls: row id -> row
    netloc,         \* product_page_urls.product_page_url: row id -> network location
    now,            \* wall clock, minutes
    manifest_open,  \* MANIFEST_PATH set: mf is an open file, else mf is None
    db_faults,      \* the environment lets task-store calls fail
    batch_size,     \* argument of main_from_db
    max_batches,    \* argument of main_from_db
    wpc,            \* position of main_from_db
    batch_num,      \* main_from_db local
    pipe,           \* the process_url task of each row of the current batch
    last,           \* the run of process_url that ended last: its status record,
                    \* the number of manifest lines and write-back calls it made
    twin,           \* what that run leaves behind under the other manifest setting
    global_sem,     \* free permits of global_sem
    heavy_sem,      \* free permits of heavy_sem
    domain_locks,   \* defaultdict: domain -> free permits of its semaphore
    page,           \* the content behind the URL under study
    prun,           \* the run of process_url on that content
    queue,          \* the worker processes sharing the task store
    save,           \* a call of save_products_to_supabase, insert by insert
    fetch,          \* a call of fetch_json_api, request by request
    call            \* a call of one of the functions on product candidates

\* what a run of the worker never changes: the module-level settings, the
\* arguments of main_from_db, the URL column and the environment's mode
settings == <<GLOBAL_CONCURRENCY, HEAVY_CONCURRENCY, PER_DOMAIN_LIMIT, netloc,
              manifest_open, db_faults, batch_size, max_batches>>

\* the URL under study is processed on its own; the batch never touches it
config == <<settings, page, prun, queue, save, fetch, call>>

\* the state of one batch of one worker
batch == <<wpc, batch_num, pipe, last, twin, global_sem, heavy_sem, domain_locks>>

\* what the URL under study never touches
worker == <<settings, store, now, batch, queue, save, fetch, call>>

\* the studies of single calls, which the workers on the queue never touch
study == <<page, prun, save, fetch, call>>

vars == <<config, store, now, wpc, batch_num, pipe, last, twin,
          global_sem, heavy_sem, domain_locks>>

\* ============================================== extraction (pure functions)
\* ------------------------------------------------------------------ text
\* Python str values are TLA+ strings; a text that is None is the marker
\* below, which no text of the model equals.
None == "<None>"

CharAt(s, i) == SubSeq(s, i, i)
Contains(s, sub) ==
    \E i \in 1..(Len(s) - Len(sub) + 1) : SubSeq(s, i, i + Len(sub) - 1) = sub
StartsWith(s, pre) == Len(s) >= Len(pre) /\ SubSeq(s, 1, Len(pre)) = pre
\* s.find(sub) + 1: the first position of sub in s, 0 when absent
IndexOf(s, sub) ==
    IF Contains(s, sub)
    THEN CHOOSE i \in 1..(Len(s) - Len(sub) + 1) :
            /\ SubSeq(s, i, i + Len(sub) - 1) = sub
            /\ \A j \in 1..(i - 1) : SubSeq(s, j, j + Len(sub) - 1) # sub
    ELSE 0
Count(s, c) == Cardinality({i \in 1..Len(s) : CharAt(s, i) = c})

UpperChars == "ABCDEFGHIJKLMNOPQRSTUVWXYZ"
LowerChars == "abcdefghijklmnopqrstuvwxyz"
Digits == {"0", "1", "2", "3", "4", "5", "6", "7", "8", "9"}
Whitespace == {" ", "\t", "\n", "\r"}

RECURSIVE Lower(_)
\* str.lower() on ASCII text
Lower(s) ==
    IF s = "" THEN ""
    ELSE LET c == CharAt(s, 1)
             k == IndexOf(UpperChars, c)
         IN (IF k > 0 THEN CharAt(LowerChars, k) ELSE c) \o Lower(SubSeq(s, 2, Len(s)))

RECURSIVE Strip(_)
\* str.strip()
Strip(s) ==
    IF s = "" THEN ""
    ELSE IF CharAt(s, 1) \in Whitespace THEN Strip(SubSeq(s, 2, Len(s)))
    ELSE IF CharAt(s, Len(s)) \in Whitespace THEN Strip(SubSeq(s, 1, Len(s) - 1))
    ELSE s

RECURSIVE CollapseSpace(_)
\* re.sub(r"\s+", " ", text)
CollapseSpace(s) ==
    IF s = "" THEN ""
    ELSE IF CharAt(s, 1) \in Whitespace
         THEN IF Len(s) > 1 /\ CharAt(s, 2) \in Whitespace
              THEN CollapseSpace(SubSeq(s, 2, Len(s)))
              ELSE " " \o CollapseSpace(SubSeq(s, 2, Len(s)))
         ELSE CharAt(s, 1) \o CollapseSpace(SubSeq(s, 2, Len(s)))

\* `cleaned if cleaned else None`
NoneIfEmpty(cleaned) == IF cleaned = "" THEN None ELSE cleaned

\* _clean_text
CleanText(text) ==
    IF text = None THEN None ELSE NoneIfEmpty(Strip(CollapseSpace(text)))

\* --------------------------------------------------------------- numbers
\* A price is held in hundredths (19.99 is 1999); a price that is None is
\* NoNumber.  Digits after the second decimal place are dropped.
NoNumber == -1
NumChars == Digits \cup {",", "."}

RECURSIVE RemoveChar(_, _)
\* s.replace(c, "")
RemoveChar(s, c) ==
    IF s = "" THEN ""
    ELSE (IF CharAt(s, 1) = c THEN "" ELSE CharAt(s, 1)) \o RemoveChar(SubSeq(s, 2, Len(s)), c)

\* re.findall(r"[\d,.]+", txt)[0], "" when there is no match
FirstNumberToken(txt) ==
    IF \A i \in 1..Len(txt) : CharAt(txt, i) \notin NumChars THEN ""
    ELSE LET a == CHOOSE i \in 1..Len(txt) :
                     /\ CharAt(txt, i) \in NumChars
                     /\ \A j \in 1..(i - 1) : CharAt(txt, j) \notin NumChars
             b == CHOOSE i \in a..Len(txt) :
                     /\ \A j \in a..i : CharAt(txt, j) \in NumChars
                     /\ (i = Len(txt) \/ CharAt(txt, i + 1) \notin NumChars)
         IN SubSeq(txt, a, b)

DigitValue(c) == IndexOf("0123456789", c) - 1

RECURSIVE DigitsValue(_)
\* int(s) for a text of digits, 0 for the empty text
DigitsValue(s) ==
    IF s = "" THEN 0
    ELSE 10 * DigitsValue(SubSeq(s, 1, Len(s) - 1)) + DigitValue(CharAt(s, Len(s)))

\* float(num) for a text of digits and dots: a ValueError (NoNumber) unless
\* there is at most one dot and at least one digit
FloatOf(num) ==
    IF Count(num, ".") > 1 \/ RemoveChar(num, ".") = "" THEN NoNumber
    ELSE LET dot == IndexOf(num, ".")
             whole == IF dot = 0 THEN num ELSE SubSeq(num, 1, dot - 1)
             frac == IF dot = 0 THEN "" ELSE SubSeq(num, dot + 1, Len(num))
             frac2 == SubSeq(frac \o "00", 1, 2)
         IN 100 * DigitsValue(whole) + DigitsValue(frac2)

\* the chain of tests with the dollar tested first
CurrencyOf_UsdFirst(txt, lowered) ==
    IF Contains(txt, "$") \/ Contains(lowered, "usd") THEN "USD"
    ELSE IF \E sym \in {"₹", "rs", "rs.", "inr"} : Contains(lowered, sym) THEN "INR"
    ELSE IF Contains(txt, "€") \/ Contains(lowered, "eur") THEN "EUR"
    ELSE IF Contains(txt, "£") \/ Contains(lowered, "gbp") THEN "GBP"
    ELSE None

\* the currency _parse_price reads from the text and its lower-case form
CurrencyOf(txt, lowered) ==
    IF \E sym \in {"₹", "rs", "rs.", "inr"} : Contains(lowered, sym) THEN "INR"
    ELSE IF Contains(txt, "$") \/ Contains(lowered, "usd") THEN "USD"
    ELSE IF Contains(txt, "€") \/ Contains(lowered, "eur") THEN "EUR"
    ELSE IF Contains(txt, "£") \/ Contains(lowered, "gbp") THEN "GBP"
    ELSE None

\* the magnitude _parse_price reads from the first number token
MagnitudeOf(tok) == IF tok = "" THEN NoNumber ELSE FloatOf(RemoveChar(tok, ","))

\* _parse_price on the stripped text
ParseStripped(txt) ==
    [price |-> MagnitudeOf(FirstNumberToken(txt)), currency |-> CurrencyOf(txt, Lower(txt))]

\* _parse_price: (magnitude, currency)
ParsePrice(raw) ==
    IF raw = None \/ raw = "" THEN [price |-> NoNumber, currency |-> None]
    ELSE ParseStripped(Strip(raw))

\* ------------------------------------------------------------------ URLs
\* smallest position of a character of cs in s, Len(s) + 1 when there is none
FirstOf(s, cs) ==
    IF \A i \in 1..Len(s) : CharAt(s, i) \notin cs THEN Len(s) + 1
    ELSE CHOOSE i \in 1..Len(s) :
            /\ CharAt(s, i) \in cs
            /\ \A j \in 1..(i - 1) : CharAt(s, j) \notin cs
\* largest position of character c in s, 0 when there is none
LastOf(s, c) ==
    IF \A i \in 1..Len(s) : CharAt(s, i) # c THEN 0
    ELSE CHOOSE i \in 1..Len(s) :
            /\ CharAt(s, i) = c
            /\ \A j \in (i + 1)..Len(s) : CharAt(s, j) # c

SchemeChars == {CharAt(LowerChars, i) : i \in 1..26} \cup {CharAt(UpperChars, i) : i \in 1..26}
                  \cup Digits \cup {"+", "-", "."}
\* position of the ":" that ends the scheme of u, 0 when u has no scheme
SchemeEnd(u) ==
    LET c == FirstOf(u, {":"})
    IN IF /\ c > 1 /\ c <= Len(u)
          /\ CharAt(u, 1) \notin Digits \cup {"+", "-", "."}
          /\ \A i \in 1..(c - 1) : CharAt(u, i) \in SchemeChars
       THEN c ELSE 0
HasScheme(u) == SchemeEnd(u) > 0
\* what follows the scheme
AfterScheme(u) == SubSeq(u, SchemeEnd(u) + 1, Len(u))
\* scheme://netloc of an absolute URL (scheme: when there is no netloc)
UrlOrigin(u) ==
    LET rest == AfterScheme(u)
    IN IF StartsWith(rest, "//")
       THEN SubSeq(u, 1, SchemeEnd(u) + 2 + FirstOf(SubSeq(rest, 3, Len(rest)), {"/", "?", "#"}) - 1)
       ELSE SubSeq(u, 1, SchemeEnd(u))
\* s up to, and s after, its first character of cs
Before(s, cs) == SubSeq(s, 1, FirstOf(s, cs) - 1)
After(s, cs) == SubSeq(s, FirstOf(s, cs) + 1, Len(s))
\* what follows the network location, without the fragment
UrlTail(u) == Before(SubSeq(u, Len(UrlOrigin(u)) + 1, Len(u)), {"#"})
\* urlparse(u).path and urlparse(u).query
UrlPath(u) == Before(UrlTail(u), {"?"})
UrlQuery(u) == After(UrlTail(u), {"?"})

\* urljoin(base, ref) for an absolute base and a reference without dot
\* segments
\* urljoin for a reference without a scheme, from the parts of the base
JoinParts(scheme, origin, path, tail, ref) ==
    IF StartsWith(ref, "//") THEN scheme \o ref
    ELSE IF StartsWith(ref, "/") THEN origin \o ref
    ELSE IF StartsWith(ref, "?") THEN origin \o path \o ref
    ELSE IF StartsWith(ref, "#") THEN origin \o tail \o ref
    ELSE origin \o SubSeq(path, 1, LastOf(path, "/"))
            \o (IF path = "" THEN "/" ELSE "") \o ref

UrlJoin(base, ref) ==
    IF ref = "" THEN base
    ELSE IF HasScheme(ref) THEN ref
    ELSE JoinParts(SubSeq(base, 1, SchemeEnd(base)), UrlOrigin(base), UrlPath(base),
                   UrlTail(base), ref)

BlacklistKeywords == {"login", "register", "signup", "account", "cart", "wishlist",
                      "checkout", "help", "faq", "contact", "privacy", "terms"}
ProductKeywords == {"/product", "/products", "/item", "/items", "/p/", "/dp/", "/pd/",
                    "/pdp", "/shop/", "/store/", "/catalog", "/collection", "/listing",
                    "/detail", "/sku"}
NegativeKeywords == {"search", "account", "contact", "login", "register"}

\* _is_blacklisted_link
IsBlacklistedLink(href) ==
    IF href = None \/ href = "" THEN TRUE
    ELSE LET h == Lower(href)
         IN \/ \E p \in {"javascript:", "mailto:", "tel:"} : StartsWith(h, p)
            \/ \E k \in BlacklistKeywords : Contains(h, k)

\* _is_product_like_path
\* `char.isdigit()` for the one element of path.split('/')[-1:]
EndsInNumber(lastseg) ==
    lastseg # "" /\ \A i \in 1..Len(lastseg) : CharAt(lastseg, i) \in Digits

\* the tests of _is_product_like_path on the lower-case path and
\* f"{path}?{query}"
ProductLike_NoNegative(path, combined) ==
    IF \E kw \in ProductKeywords : Contains(combined, kw) THEN TRUE
    ELSE IF Count(path, "/") >= 2 /\ Len(path) > 3 THEN TRUE
    ELSE EndsInNumber(SubSeq(path, LastOf(path, "/") + 1, Len(path)))

ProductLike(path, combined) ==
    IF \E kw \in ProductKeywords : Contains(combined, kw) THEN TRUE
    ELSE IF \E neg \in NegativeKeywords : Contains(combined, neg) THEN FALSE
    ELSE IF Count(path, "/") >= 2 /\ Len(path) > 3 THEN TRUE
    ELSE EndsInNumber(SubSeq(path, LastOf(path, "/") + 1, Len(path)))

PathAndQuery(path, query) == ProductLike(path, path \o "?" \o query)

\* _is_product_like_path
IsProductLikePath(href) == PathAndQuery(Lower(UrlPath(href)), Lower(UrlQuery(href)))

\* ------------------------------------------------------------ JSON values
\* A parsed JSON value: null, a string, a number (held as the text str()
\* gives for it), a list, or a dict as the sequence of its <<key, value>>
\* pairs in document order.
JNull == [t |-> "null"]
JStr(s) == [t |-> "str", s |-> s]
JNum(s) == [t |-> "num", s |-> s]
JList(xs) == [t |-> "list", xs |-> xs]
JDict(kv) == [t |-> "dict", kv |-> kv]

IsDict(v) == v.t = "dict"
IsList(v) == v.t = "list"
IsStr(v) == v.t = "str"
\* bool(v)
Truthy(v) ==
    CASE v.t = "null" -> FALSE
      [] v.t = "str" -> v.s # ""
      [] v.t = "num" -> FloatOf(v.s) # 0
      [] v.t = "list" -> Len(v.xs) > 0
      [] v.t = "dict" -> Len(v.kv) > 0
\* `a or b`
Or(a, b) == IF Truthy(a) THEN a ELSE b
\* `key in d`
HasKey(d, k) == \E i \in 1..Len(d.kv) : d.kv[i][1] = k
\* d.get(key)
Get(d, k) ==
    IF HasKey(d, k) THEN d.kv[CHOOSE i \in 1..Len(d.kv) : d.kv[i][1] = k][2] ELSE JNull
\* d.setdefault(key, v)
SetDefault(d, k, v) == IF HasKey(d, k) THEN d ELSE JDict(Append(d.kv, <<k, v>>))
\* a string or number as the text Python uses for it, None for null
TextOf(v) == IF v.t \in {"str", "num"} THEN v.s ELSE None
\* str(v or '')
StrOrEmpty(v) == IF Truthy(v) THEN v.s ELSE ""

Take(s, n) == SubSeq(s, 1, IF Len(s) < n THEN Len(s) ELSE n)

\* ------------------------------------------------------------- validation
\* _parse_float: the first run of digits and dots, as a float (hundredths)
ParseFloat(raw) ==
    IF raw = None \/ raw = "" THEN NoNumber
    ELSE LET a == FirstOf(raw, Digits \cup {"."})
             rest == SubSeq(raw, a, Len(raw))
             b == FirstOf(rest, {CharAt(rest, i) : i \in 1..Len(rest)} \ (Digits \cup {"."}))
         IN IF a > Len(raw) THEN NoNumber ELSE FloatOf(SubSeq(rest, 1, b - 1))

\* _parse_int: the first run of digits, as an int
ParseInt(raw) ==
    IF raw = None \/ raw = "" THEN NoNumber
    ELSE LET a == FirstOf(raw, Digits)
             rest == SubSeq(raw, a, Len(raw))
             b == FirstOf(rest, {CharAt(rest, i) : i \in 1..Len(rest)} \ Digits)
         IN IF a > Len(raw) THEN NoNumber ELSE DigitsValue(SubSeq(rest, 1, b - 1))

\* `product.get('price')` is truthy: not None and not 0.0
PriceTruthy(price) == price # NoNumber /\ price # 0

\* mutant: without the blacklist test
ValidFields_NoBlacklist(url, title, price) ==
    IF url = None \/ url = "" THEN FALSE
    ELSE IF ~IsProductLikePath(url) /\ ~(PriceTruthy(price) /\ title # None) THEN FALSE
    ELSE IF title # None /\ Len(title) < 2 THEN FALSE
    ELSE IF title = None /\ ~PriceTruthy(price) THEN FALSE
    ELSE TRUE

\* mutant: a candidate is valid only as long as no product has been saved
ValidFields_UntilSaved(url, title, price) ==
    IF url = None \/ url = "" THEN FALSE
    ELSE IF IsBlacklistedLink(url) THEN FALSE
    ELSE IF ~IsProductLikePath(url) /\ ~(PriceTruthy(price) /\ title # None) THEN FALSE
    ELSE IF title # None /\ Len(title) < 2 THEN FALSE
    ELSE IF title = None /\ ~PriceTruthy(price) THEN FALSE
    ELSE save.saved_count = 0

\* the tests of _is_valid_product on the url, the cleaned title and the
\* price of the candidate
ValidFields(url, title, price) ==
    IF url = None \/ url = "" THEN FALSE
    ELSE IF IsBlacklistedLink(url) THEN FALSE
    ELSE IF ~IsProductLikePath(url) /\ ~(PriceTruthy(price) /\ title # None) THEN FALSE
    ELSE IF title # None /\ Len(title) < 2 THEN FALSE
    ELSE IF title = None /\ ~PriceTruthy(price) THEN FALSE
    ELSE TRUE

\* _is_valid_product
IsValidProduct(product, base_url) ==
    ValidFields(product.product_url, CleanText(product.title), product.price)

\* -------------------------------------------------------- JSON extraction
\* A product candidate (the dict the extractors build).
Candidate(title, product_url, image_url, price, currency, raw_price, rating, review_count, brand, sku) ==
    [title |-> title, product_url |-> product_url, image_url |-> image_url,
     price |-> price, currency |-> currency, raw_price |-> raw_price,
     rating |-> rating, review_count |-> review_count, brand |-> brand, sku |-> sku]

\* `image[0]` of a non-empty list, then `image.get('url') or image.get('src')`
\* of a dict
ImageOf(v) ==
    LET first == IF IsList(v) /\ Len(v.xs) > 0 THEN v.xs[1] ELSE v
    IN IF IsDict(first) THEN Or(Get(first, "url"), Get(first, "src")) ELSE first

\* float(v) of a JSON string or number: NoNumber stands for the ValueError.
\* The texts of the values under study are made of digits and dots or hold
\* a letter that float() refuses; "nan", "inf", signs and exponents are
\* studied with the records of save_products_to_supabase.
PyFloat(v) ==
    IF v.t \in {"str", "num"} /\ \A i \in 1..Len(v.s) : CharAt(v.s, i) \in Digits \cup {"."}
    THEN FloatOf(v.s) ELSE NoNumber

\* the product URL of a Wix product: from the slug, else from the id
WixUrl(base_url, slug, product_id) ==
    IF Truthy(slug) THEN UrlJoin(base_url, "/product-page/" \o slug.s)
    ELSE IF Truthy(product_id) THEN UrlJoin(base_url, "/product/" \o product_id.s)
    ELSE None

\* raw_price, parsed_price and currency of a Wix product, from price_data
\* and price_data.get('price'); float() of a text that is no number raises
WixPrice(price_data, inner) ==
    IF IsDict(price_data)
    THEN [raw_price |-> StrOrEmpty(Or(inner, Get(price_data, "formatted"))),
          price |-> IF Truthy(inner) THEN PyFloat(inner) ELSE NoNumber,
          currency |-> TextOf(Get(price_data, "currency")),
          raises |-> Truthy(inner) /\ PyFloat(inner) = NoNumber]
    ELSE IF price_data.t = "num"
    THEN [raw_price |-> price_data.s, price |-> PyFloat(price_data), currency |-> None,
          raises |-> FALSE]
    ELSE [raw_price |-> None, price |-> NoNumber, currency |-> None, raises |-> FALSE]

WixPriceOf(price_data) ==
    WixPrice(price_data, IF IsDict(price_data) THEN Get(price_data, "price") ELSE JNull)

\* the image of a Wix product, from media: the first element of a list, or
\* `media.get('mainMedia', {}).get('url') or media.get('url')` of a dict
WixFirstMedia(first_media) ==
    IF IsDict(first_media) THEN Or(Get(first_media, "url"), Get(first_media, "src"))
    ELSE IF IsStr(first_media) THEN first_media ELSE JNull

MainMediaUrl(media) ==
    IF IsDict(Get(media, "mainMedia")) THEN Get(Get(media, "mainMedia"), "url") ELSE JNull

WixImage(media) ==
    IF IsList(media) /\ Len(media.xs) > 0 THEN WixFirstMedia(media.xs[1])
    ELSE IF IsDict(media) THEN Or(MainMediaUrl(media), Get(media, "url"))
    ELSE JNull

\* a mainMedia that is no dict has no .get
WixMediaRaises(media) ==
    IsDict(media) /\ HasKey(media, "mainMedia") /\ ~IsDict(Get(media, "mainMedia"))

\* `if image_url and not image_url.startswith('http'): urljoin(...)`
WixImageUrl(base_url, image) ==
    IF Truthy(image)
    THEN (IF StartsWith(image.s, "http") THEN image.s ELSE UrlJoin(base_url, image.s))
    ELSE TextOf(image)

\* the dict _extract_wix_product builds
WixProduct(wix_data, base_url, product_id, price, image) ==
    Candidate(TextOf(Get(wix_data, "name")),
              WixUrl(base_url, Or(Get(wix_data, "slug"), Get(wix_data, "urlPart")), product_id),
              WixImageUrl(base_url, image),
              price.price,
              IF price.currency = None \/ price.currency = "" THEN "INR" ELSE price.currency,
              price.raw_price, NoNumber, NoNumber,
              TextOf(Get(wix_data, "brand")),
              TextOf(Or(Get(wix_data, "sku"), product_id)))

\* an exception inside _extract_wix_product: `except Exception: pass`
WixRaises(wix_data, price, image) ==
    \/ price.raises
    \/ WixMediaRaises(Or(Get(wix_data, "media"), Get(wix_data, "images")))
    \/ Truthy(image) /\ ~IsStr(image)
    \/ Get(wix_data, "name").t \notin {"null", "str"}

WixParts(wix_data, base_url, product_id, price, image) ==
    IF WixRaises(wix_data, price, image) THEN <<>>
    ELSE IF IsValidProduct(WixProduct(wix_data, base_url, product_id, price, image), base_url)
    THEN <<WixProduct(wix_data, base_url, product_id, price, image)>>
    ELSE <<>>

\* _extract_wix_product: <<product>>, or <<>> for None
ExtractWixProduct(wix_data, base_url) ==
    IF ~IsDict(wix_data) THEN <<>>
    ELSE WixParts(wix_data, base_url,
                  Or(Get(wix_data, "id"), Get(wix_data, "productId")),
                  WixPriceOf(Or(Get(wix_data, "price"), Get(wix_data, "priceData"))),
                  WixImage(Or(Get(wix_data, "media"), Get(wix_data, "images"))))

\* a value that is neither None nor a str makes _clean_text raise TypeError
\* (re.sub), a truthy value that is no str makes urljoin raise TypeError
CleanRaises(v) == v.t \notin {"null", "str"}
JoinRaises(v) == Truthy(v) /\ ~IsStr(v)

\* the schema.org Product branch raises while it builds or validates its
\* candidate
SchemaRaises(data) ==
    LET brand0 == Get(data, "brand")
        brand == IF IsDict(brand0) THEN Or(Get(brand0, "name"), Get(brand0, "brand")) ELSE brand0
    IN \/ JoinRaises(Or(Get(data, "url"), Get(data, "@id")))
       \/ JoinRaises(ImageOf(Get(data, "image")))
       \/ ~IsStr(brand) /\ CleanRaises(brand0)
       \/ CleanRaises(Get(data, "sku"))
       \/ CleanRaises(Or(Get(data, "name"), Get(data, "title")))

\* the candidate the schema.org Product branch builds from a dict
SchemaCandidate(data, base_url) ==
    LET image == ImageOf(Get(data, "image"))
        offers0 == Get(data, "offers")
        offers == IF IsList(offers0) /\ Len(offers0.xs) > 0 THEN offers0.xs[1] ELSE offers0
        raw_price == IF IsDict(offers) THEN StrOrEmpty(Get(offers, "price")) ELSE None
        parsed == ParsePrice(raw_price)
        agg == Get(data, "aggregateRating")
        brand0 == Get(data, "brand")
        brand == IF IsDict(brand0) THEN Or(Get(brand0, "name"), Get(brand0, "brand")) ELSE brand0
    IN Candidate(TextOf(Or(Get(data, "name"), Get(data, "title"))),
                 UrlJoin(base_url, StrOrEmpty(Or(Get(data, "url"), Get(data, "@id")))),
                 UrlJoin(base_url, StrOrEmpty(image)),
                 IF IsDict(offers) THEN parsed.price ELSE NoNumber,
                 IF IsDict(offers)
                 THEN (IF parsed.currency # None THEN parsed.currency
                       ELSE TextOf(Get(offers, "priceCurrency")))
                 ELSE None,
                 raw_price,
                 IF IsDict(agg) /\ Truthy(Get(agg, "ratingValue"))
                 THEN ParseFloat(Get(agg, "ratingValue").s) ELSE NoNumber,
                 IF IsDict(agg) /\ Truthy(Get(agg, "reviewCount"))
                 THEN ParseInt(Get(agg, "reviewCount").s) ELSE NoNumber,
                 CleanText(TextOf(brand)),
                 CleanText(TextOf(Get(data, "sku"))))

SynonymKeys == {"name", "title", "productName", "product_name", "productUrl",
                "product_url", "price", "image", "imageUrl"}

\* the synonym-key branch raises while it builds or validates its candidate
SynonymRaises(data) ==
    \/ JoinRaises(Or(Or(Get(data, "url"), Get(data, "productUrl")), Get(data, "product_url")))
    \/ JoinRaises(ImageOf(Or(Or(Get(data, "image"), Get(data, "imageUrl")), Get(data, "image_url"))))
    \/ CleanRaises(Or(Get(data, "brand"), Get(data, "manufacturer")))
    \/ CleanRaises(Or(Or(Get(data, "sku"), Get(data, "productId")), Get(data, "id")))
    \/ CleanRaises(Or(Or(Or(Get(data, "name"), Get(data, "title")),
                         Get(data, "productName")), Get(data, "product_name")))

\* the candidate the synonym-key branch builds from a dict
SynonymCandidate(data, base_url) ==
    LET image == ImageOf(Or(Or(Get(data, "image"), Get(data, "imageUrl")), Get(data, "image_url")))
        raw_price == StrOrEmpty(Or(Get(data, "price"), Get(data, "salePrice")))
    IN Candidate(TextOf(Or(Or(Or(Get(data, "name"), Get(data, "title")),
                              Get(data, "productName")), Get(data, "product_name"))),
                 UrlJoin(base_url, StrOrEmpty(Or(Or(Get(data, "url"), Get(data, "productUrl")),
                                                 Get(data, "product_url")))),
                 UrlJoin(base_url, StrOrEmpty(image)),
                 ParsePrice(raw_price).price,
                 TextOf(Or(Get(data, "currency"), Get(data, "priceCurrency"))),
                 raw_price,
                 ParseFloat(StrOrEmpty(Or(Get(data, "rating"), Get(data, "ratingValue")))),
                 ParseInt(StrOrEmpty(Or(Get(data, "reviewCount"), Get(data, "reviewsCount")))),
                 CleanText(TextOf(Or(Get(data, "brand"), Get(data, "manufacturer")))),
                 CleanText(TextOf(Or(Or(Get(data, "sku"), Get(data, "productId")), Get(data, "id")))))

NestedKeywords == {"product", "products", "item", "items", "listing", "result",
                   "entries", "hits"}

RECURSIVE ExtractProductsFromJson(_, _, _, _)
RECURSIVE ExtractEach(_, _, _, _, _, _)
RECURSIVE ExtractWixEach(_, _, _, _, _)
RECURSIVE WixExtracted(_, _, _, _, _, _)
RECURSIVE ExtractNested(_, _, _, _, _, _)

\* `for item in data: products.extend(...); if len(products) >= max_items: break`
ExtractEach(xs, i, acc, base_url, max_items, depth) ==
    IF i > Len(xs) THEN acc
    ELSE LET acc2 == acc \o ExtractProductsFromJson(xs[i], base_url, max_items, depth + 1)
         IN IF Len(acc2) >= max_items THEN acc2
            ELSE ExtractEach(xs, i + 1, acc2, base_url, max_items, depth)

\* the loop over data['products']; it is left when an append brings the
\* list to max_items
ExtractWixEach(xs, i, acc, base_url, max_items) ==
    IF i > Len(xs) THEN acc
    ELSE WixExtracted(xs, i, acc, ExtractWixProduct(xs[i], base_url), base_url, max_items)

\* one round of that loop: `if extracted: products.append(extracted)`
WixExtracted(xs, i, acc, extracted, base_url, max_items) ==
    IF extracted # <<>> /\ Len(acc) + 1 >= max_items THEN acc \o extracted
    ELSE ExtractWixEach(xs, i + 1, acc \o extracted, base_url, max_items)

\* `for key, value in data.items()`: recursion into the values whose key
\* contains a nested keyword
ExtractNested(kv, i, acc, base_url, max_items, depth) ==
    IF i > Len(kv) THEN acc
    ELSE IF \E k \in NestedKeywords : Contains(Lower(kv[i][1]), k)
    THEN LET acc2 == acc \o ExtractProductsFromJson(kv[i][2], base_url, max_items, depth + 1)
         IN IF Len(acc2) >= max_items THEN acc2
            ELSE ExtractNested(kv, i + 1, acc2, base_url, max_items, depth)
    ELSE ExtractNested(kv, i + 1, acc, base_url, max_items, depth)

\* `products.append(candidate)` under `if _is_valid_product(candidate, base_url)`
ValidOnes(candidate, base_url) ==
    IF IsValidProduct(candidate, base_url) THEN <<candidate>> ELSE <<>>

\* after the synonym-key block has appended `added`: the early return, else
\* the loop over the nested keys and `return products[:max_items]`
AfterSynonym(data, products, added, base_url, max_items, depth) ==
    IF added # <<>> /\ Len(products) + 1 >= max_items THEN products \o added
    ELSE Take(ExtractNested(data.kv, 1, products \o added, base_url, max_items, depth),
              max_items)

\* the synonym-key block; an exception inside it is caught by
\* `except Exception: pass`, followed by `return products[:max_items]`
SynonymBlock(data, products, base_url, max_items, depth) ==
    LET hasFields == \E k \in SynonymKeys : HasKey(data, k)
    IN IF hasFields /\ SynonymRaises(data) THEN Take(products, max_items)
       ELSE AfterSynonym(data, products,
                         IF hasFields
                         THEN ValidOnes(SynonymCandidate(data, base_url), base_url)
                         ELSE <<>>,
                         base_url, max_items, depth)

\* after the schema.org Product block has appended `added`
AfterSchema(data, products, added, base_url, max_items, depth) ==
    IF added # <<>> /\ Len(products) + 1 >= max_items
    THEN Take(products \o added, max_items)
    ELSE SynonymBlock(data, products \o added, base_url, max_items, depth)

\* the schema.org Product block
SchemaBlock(data, data_type, products, base_url, max_items, depth) ==
    IF data_type = "product" /\ SchemaRaises(data) THEN Take(products, max_items)
    ELSE AfterSchema(data, products,
                     IF data_type = "product"
                     THEN ValidOnes(SchemaCandidate(data, base_url), base_url)
                     ELSE <<>>,
                     base_url, max_items, depth)

\* after the ListItem block: its early return when it has extended the list
AfterListItem(data, data_type, products, extended, base_url, max_items, depth) ==
    IF extended /\ Len(products) >= max_items THEN Take(products, max_items)
    ELSE SchemaBlock(data, data_type, products, base_url, max_items, depth)

\* the ListItem block: the item, given the name and url of its wrapper, is
\* extracted one level deeper
ListItemBlock(data, data_type, products, base_url, max_items, depth) ==
    LET item == Get(data, "item")
        inner == SetDefault(SetDefault(item, "name", Get(data, "name")),
                            "url", Or(Get(data, "url"), Get(item, "@id")))
        isListItem == data_type = "listitem" /\ IsDict(item)
    IN AfterListItem(data, data_type,
                     IF isListItem
                     THEN products \o ExtractProductsFromJson(inner, base_url, max_items,
                                                              depth + 1)
                     ELSE products,
                     isListItem, base_url, max_items, depth)

\* after the loop over data['products']
AfterWix(data, products, base_url, max_items, depth) ==
    IF products # <<>> /\ Len(products) >= max_items THEN Take(products, max_items)
    ELSE ListItemBlock(data,
                       Lower(StrOrEmpty(Or(Get(data, "@type"), Get(data, "type")))),
                       products, base_url, max_items, depth)

\* the function without the depth test
ExtractProductsFromJson_NoDepth(data, base_url, max_items, depth) ==
    IF IsList(data)
    THEN Take(ExtractEach(data.xs, 1, <<>>, base_url, max_items, depth), max_items)
    ELSE IF ~IsDict(data) THEN <<>>
    ELSE AfterWix(data,
                  IF IsList(Get(data, "products"))
                  THEN ExtractWixEach(Get(data, "products").xs, 1, <<>>, base_url, max_items)
                  ELSE <<>>,
                  base_url, max_items, depth)

\* _extract_products_from_json
ExtractProductsFromJson(data, base_url, max_items, depth) ==
    IF depth > 5 THEN <<>>
    ELSE IF IsList(data)
    THEN Take(ExtractEach(data.xs, 1, <<>>, base_url, max_items, depth), max_items)
    ELSE IF ~IsDict(data) THEN <<>>
    ELSE AfterWix(data,
                  IF IsList(Get(data, "products"))
                  THEN ExtractWixEach(Get(data, "products").xs, 1, <<>>, base_url, max_items)
                  ELSE <<>>,
                  base_url, max_items, depth)

\* `a or b` of two texts
OrText(a, b) == IF a # "" THEN a ELSE IF b = None THEN "" ELSE b

\* `(p.get('product_url') or '').strip() or _clean_text(p.get('title')) or ''`
DedupeKey(p) ==
    OrText(Strip(IF p.product_url = None THEN "" ELSE p.product_url), CleanText(p.title))

RECURSIVE DedupeFrom(_, _, _)
RECURSIVE Deduped(_, _, _, _)
\* the loop without the test `key in seen`
Deduped_KeepAll(products, i, seen, key) ==
    IF key = "" THEN DedupeFrom(products, i + 1, seen)
    ELSE <<products[i]>> \o DedupeFrom(products, i + 1, seen \cup {key})

\* the loop forgetting a key when it drops a product for it
Deduped_Forget(products, i, seen, key) ==
    IF key = "" THEN DedupeFrom(products, i + 1, seen)
    ELSE IF key \in seen THEN DedupeFrom(products, i + 1, seen \ {key})
    ELSE <<products[i]>> \o DedupeFrom(products, i + 1, seen \cup {key})

\* one round of the loop: a product whose key is empty or was seen is
\* dropped
Deduped(products, i, seen, key) ==
    IF key = "" \/ key \in seen THEN DedupeFrom(products, i + 1, seen)
    ELSE <<products[i]>> \o DedupeFrom(products, i + 1, seen \cup {key})

\* the loop of _dedupe_products from position i with the keys seen so far
DedupeFrom(products, i, seen) ==
    IF i > Len(products) THEN <<>>
    ELSE Deduped(products, i, seen, DedupeKey(products[i]))

\* _dedupe_products
DedupeProducts(products) == DedupeFrom(products, 1, {})

\* ------------------------------------------------------------ persistence
RECURSIVE FlattenLines(_)
\* value.replace('\r', ' ').replace('\n', ' ')
FlattenLines(s) ==
    IF s = "" THEN ""
    ELSE IF Len(s) = 1 THEN (IF s \in {"\r", "\n"} THEN " " ELSE s)
    ELSE FlattenLines(SubSeq(s, 1, Len(s) \div 2))
            \o FlattenLines(SubSeq(s, Len(s) \div 2 + 1, Len(s)))

\* _sanitize_text for a text without NUL characters
SanitizeText(value, max_length) ==
    IF value = None \/ value = "" THEN None
    ELSE NoneIfEmpty(Strip(Take(FlattenLines(value), max_length)))

\* _sanitize_url
SanitizeUrl(value) ==
    IF value = None \/ value = "" THEN None
    ELSE NoneIfEmpty(Take(Strip(value), 2048))

\* save_products_to_supabase: the number of records inserted.  db = "none":
\* get_supabase_client() returns None; "down": every insert fails; "up":
\* every insert returns the stored row.  A record without product_name or
\* product_url is skipped before the insert.
SaveProductsToSupabase(products, db) ==
    IF db # "up" THEN 0
    ELSE Cardinality({i \in 1..Len(products) :
                        /\ SanitizeText(products[i].title, 500) # None
                        /\ SanitizeUrl(products[i].product_url) # None})

RECURSIVE ExtractBlocks(_, _, _, _)
\* `for block in ld_sources or []: candidates.extend(...)`, and the same
\* for a truthy inline_source after the blocks
ExtractBlocks(ld_sources, i, base_url, max_items) ==
    IF i > Len(ld_sources) THEN <<>>
    ELSE ExtractProductsFromJson(ld_sources[i], base_url, max_items, 0)
            \o ExtractBlocks(ld_sources, i + 1, base_url, max_items)

\* extract_products_from_sources; cards is what extract_products_from_html
\* returns for the page
ExtractProductsFromSources(cards, ld_sources, inline_source, base_url, max_items) ==
    Take(DedupeProducts(cards \o ExtractBlocks(ld_sources \o (IF Truthy(inline_source)
                                                                THEN <<inline_source>>
                                                                ELSE <<>>),
                                               1, base_url, max_items)),
         max_items)

\* ------------------------------------------------------------ task store
NewRow == [processing_status |-> "pending", claimed_by |-> NoWorker,
           claimed_at |-> NullTime, success |-> "null",
           products_found |-> 0, products_saved |-> 0, error_len |-> 0]

\* mutant: the reset without the age test
ResetStuck_AnyAge(st, t) ==
    [i \in Items |->
        IF st[i].processing_status = "processing"
        THEN [st[i] EXCEPT !.processing_status = "pending",
                           !.claimed_by = NoWorker, !.claimed_at = NullTime]
        ELSE st[i]]

\* UPDATE ... SET pending, claimed_by=NULL, claimed_at=NULL
\*   WHERE processing_status='processing' AND claimed_at < now-30min
ResetStuck(st, t) ==
    [i \in Items |->
        IF /\ st[i].processing_status = "processing"
           /\ st[i].claimed_at # NullTime
           /\ st[i].claimed_at < t - STUCK_MINUTES
        THEN [st[i] EXCEPT !.processing_status = "pending",
                           !.claimed_by = NoWorker, !.claimed_at = NullTime]
        ELSE st[i]]

\* SELECT ... WHERE processing_status='pending'
PendingIds(st) == {i \in Items : st[i].processing_status = "pending"}

\* the result sets SELECT ... LIMIT limit may return (no ORDER BY)
Selections(st, limit) ==
    {S \in SUBSET PendingIds(st) :
        Cardinality(S) = Min(limit, Cardinality(PendingIds(st)))}

\* UPDATE ... SET processing, claimed_by, claimed_at WHERE id = url_id,
\* for every selected row whose update did not fail
ClaimRows(st, ids, w, t) ==
    [i \in Items |->
        IF i \in ids
        THEN [st[i] EXCEPT !.processing_status = "processing",
                           !.claimed_by = w, !.claimed_at = t]
        ELSE st[i]]

\* mutant: a write-back that fails leaves the row marked failed
UpdateUrlResult_MarkFailed(st, url_id, success, found, saved, error_len, dbOk) ==
    [st EXCEPT ![url_id] =
        IF ~dbOk THEN [@ EXCEPT !.processing_status = "failed"]
        ELSE [@ EXCEPT !.processing_status = IF success THEN "completed" ELSE "failed",
                       !.success = IF success THEN "true" ELSE "false",
                       !.products_found = found,
                       !.products_saved = saved,
                       !.error_len = IF error_len > 0 THEN Min(error_len, ERR_LIMIT) ELSE @]]

\* mutant: the write-back leaves a row that already has an outcome
UpdateUrlResult_FirstWins(st, url_id, success, found, saved, error_len, dbOk) ==
    IF ~dbOk \/ st[url_id].processing_status \in {"completed", "failed"} THEN st
    ELSE [st EXCEPT ![url_id] =
            [@ EXCEPT !.processing_status = IF success THEN "completed" ELSE "failed",
                      !.success = IF success THEN "true" ELSE "false",
                      !.products_found = found,
                      !.products_saved = saved,
                      !.error_len = IF error_len > 0 THEN Min(error_len, ERR_LIMIT) ELSE @]]

\* update_url_processing_result: one write, a failure is swallowed
UpdateUrlResult(st, url_id, success, found, saved, error_len, dbOk) ==
    IF ~dbOk THEN st
    ELSE [st EXCEPT ![url_id] =
            [@ EXCEPT !.processing_status = IF success THEN "completed" ELSE "failed",
                      !.success = IF success THEN "true" ELSE "false",
                      !.products_found = found,
                      !.products_saved = saved,
                      !.error_len = IF error_len > 0 THEN Min(error_len, ERR_LIMIT) ELSE @]]

\* ------------------------------------------------------------- pipelines
\* The frame of one process_url task: its position, whether structured data
\* was found (`ld or inline`), the number of API candidates the loop has
\* not fetched yet, the number it has fetched, whether heavy_render has
\* been called, what it returned (res truthy and res.success, and
\* len(rendered_html)), and the locals products_found / products_saved.
NoTask == [pc |-> "none", sd |-> "unknown", left |-> 0, tried |-> FALSE,
           heavy |-> FALSE, rok |-> FALSE, rlen |-> 0, found |-> 0, saved |-> 0]

\* No run has ended yet.
NoRun == [stage |-> "none", ok |-> FALSE, found |-> 0, saved |-> 0,
          err |-> 0, wb |-> 0, mfw |-> 0, raised |-> FALSE,
          sd |-> "unknown", heavy |-> FALSE, rok |-> FALSE, rlen |-> 0]

\* positions at which a task holds a permit of its domain gate / the global
\* gate / the heavy gate
HoldsDomain(p) == p.pc \in {"wait_global", "fetch", "api", "wait_heavy", "render1", "render2"}
HoldsGlobal(p) == p.pc \in {"fetch", "api", "wait_heavy", "render1", "render2"}
HoldsHeavy(p) == p.pc \in {"render1", "render2"}
Terminal(p) == p.pc \in {"done", "raised", "cancelled"}

\* domain = parsed.netloc or "unknown"
DomainOf(i) == IF netloc[i] = "" THEN "unknown" ELSE netloc[i]

\* mutant: every access builds a new semaphore instead of looking the
\* domain up
DomainValue_Fresh(d) == PER_DOMAIN_LIMIT

\* free permits of the gate of domain d; the defaultdict creates the
\* semaphore with PER_DOMAIN_LIMIT permits on first access
DomainValue(d) == IF d \in DOMAIN domain_locks THEN domain_locks[d] ELSE PER_DOMAIN_LIMIT

SetDomain(d, v) == [x \in (DOMAIN domain_locks) \cup {d} |-> IF x = d THEN v ELSE domain_locks[x]]

InitWorker ==
    /\ store = [i \in Items |-> NewRow]
    /\ \E setup \in Setups :
         /\ GLOBAL_CONCURRENCY = setup.global
         /\ PER_DOMAIN_LIMIT = setup.domain
         /\ HEAVY_CONCURRENCY = setup.heavy
         /\ netloc = setup.netloc
    /\ now = 0
    /\ manifest_open \in BOOLEAN
    /\ wpc = "loop"
    /\ batch_num = 0
    /\ pipe = [i \in Items |-> NoTask]
    /\ last = NoRun
    /\ twin = NoRun
    /\ global_sem = GLOBAL_CONCURRENCY
    /\ heavy_sem = HEAVY_CONCURRENCY
    /\ domain_locks = [d \in {} |-> 0]

\* ------------------------------------------------- fetch_pending_urls_from_db
\* The results one call can have: the store it leaves and the rows it
\* returns.  No client -> []; the stale reset may fail (logged, ignored);
\* a failing select is caught by the outer handler -> []; every per-row
\* claim update may fail (swallowed) and the row is returned all the same.
FetchPendingResults(st, t, limit, w, faults) ==
    UNION {
        LET st1 == IF resetOk THEN ResetStuck(st, t) ELSE st IN
        UNION {{[store |-> ClaimRows(st1, S \ F, w, t), urls |-> S]
                    : F \in IF faults THEN SUBSET S ELSE {{}}}
               : S \in Selections(st1, limit)}
        \cup (IF faults THEN {[store |-> st, urls |-> {}], [store |-> st1, urls |-> {}]} ELSE {})
        : resetOk \in IF faults THEN BOOLEAN ELSE {TRUE}}

\* ------------------------------------------------------------ process_url
\* What one run of process_url leaves behind at a terminal state, as a
\* function of the manifest handle.  The four regular terminal blocks guard
\* the manifest write with `if manifest_fh:`; the exception handler calls
\* manifest_fh.write unguarded, which raises AttributeError on None before
\* the write-back is reached, and the exception leaves process_url.
Outcome(mf, p, url_id, stage, success, found, saved, err) ==
    LET escapes == stage = "exception" /\ ~mf IN
    [stage |-> stage, ok |-> success, found |-> found,
     saved |-> saved, err |-> err,
     wb |-> IF ~escapes /\ url_id # 0 THEN 1 ELSE 0,
     mfw |-> IF mf THEN 1 ELSE 0,
     raised |-> escapes,
     sd |-> IF stage = "fast-json" THEN "yes" ELSE p.sd,
     heavy |-> p.heavy, rok |-> p.rok, rlen |-> p.rlen]

\* Terminal block of process_url for row i: status record, manifest line,
\* write-back, return; leaving the two `async with` blocks releases the
\* global permit and the domain permit, and the frame is gone.
Finish(i, p, stage, success, found, saved, err, dbOk) ==
    LET o == Outcome(manifest_open, p, i, stage, success, found, saved, err)
        d == DomainOf(i)
    IN /\ pipe' = [pipe EXCEPT ![i] = [NoTask EXCEPT !.pc = IF o.raised THEN "raised" ELSE "done"]]
       /\ last' = o
       /\ twin' = Outcome(~manifest_open, p, i, stage, success, found, saved, err)
       /\ store' = IF o.wb = 1
                   THEN UpdateUrlResult(store, i, success, found, saved, err, dbOk)
                   ELSE store
       /\ global_sem' = global_sem + 1
       /\ domain_locks' = SetDomain(d, DomainValue(d) + 1)

\* products_saved after a block that extracted n products, k of which
\* save_products_to_supabase counted: `if products:` guards the assignment,
\* with no product the local keeps the value it had
SavedAfter(p, n, k) == IF n > 0 THEN k ELSE p.saved

\* the outcomes a task-store write can have
DbOk == IF db_faults THEN BOOLEAN ELSE {TRUE}

\* except Exception as e: error_msg = str(e)[:500]; success = False
HandleException(i, elen, dbOk) ==
    Finish(i, pipe[i], "exception", FALSE, pipe[i].found, pipe[i].saved, Min(elen, ERR_LIMIT), dbOk)

\* mutant: the two `async with` lines swapped, the global permit is taken
\* where the domain permit should be
AcquireDomain_GlobalFirst(i) ==
    /\ pipe[i].pc = "wait_domain"
    /\ global_sem > 0
    /\ global_sem' = global_sem - 1
    /\ pipe' = [pipe EXCEPT ![i].pc = "wait_global"]
    /\ UNCHANGED <<config, store, now, wpc, batch_num, last, twin, heavy_sem, domain_locks>>

\* async with domain_locks[domain]
AcquireDomain(i) ==
    /\ pipe[i].pc = "wait_domain"
    /\ DomainValue(DomainOf(i)) > 0
    /\ domain_locks' = SetDomain(DomainOf(i), DomainValue(DomainOf(i)) - 1)
    /\ pipe' = [pipe EXCEPT ![i].pc = "wait_global"]
    /\ UNCHANGED <<config, store, now, wpc, batch_num, last, twin,
                   global_sem, heavy_sem>>

\* mutant: the pipeline enters without waiting for a free permit
AcquireGlobal_NoWait(i) ==
    /\ pipe[i].pc = "wait_global"
    /\ global_sem' = global_sem - 1
    /\ pipe' = [pipe EXCEPT ![i].pc = "fetch"]
    /\ UNCHANGED <<config, store, now, wpc, batch_num, last, twin, heavy_sem, domain_locks>>

\* async with global_sem; then the locals are set and fetch_html is awaited
AcquireGlobal(i) ==
    /\ pipe[i].pc = "wait_global"
    /\ global_sem > 0
    /\ global_sem' = global_sem - 1
    /\ pipe' = [pipe EXCEPT ![i].pc = "fetch"]
    /\ UNCHANGED <<config, store, now, wpc, batch_num, last, twin,
                   heavy_sem, domain_locks>>

\* fetch_html raises (connection error, timeout)
FetchRaise(i) ==
    /\ pipe[i].pc = "fetch"
    /\ \E elen \in ErrLens, dbOk \in DbOk : HandleException(i, elen, dbOk)
    /\ UNCHANGED <<config, now, wpc, batch_num, heavy_sem>>

\* fetch_html returns.  sd: extract_ld_json / extract_inline_json found a
\* block (`if ld or inline`); n: len(extract_products_from_sources(...));
\* k: return of save_products_to_supabase; nc: len(find_xhr_candidates(...)).
FetchReturn(i) ==
    /\ pipe[i].pc = "fetch"
    /\ \E sd \in BOOLEAN :
        IF sd
        THEN /\ \E n \in 0..MaxProducts, dbOk \in DbOk :
                  \E k \in 0..n :
                     /\ Finish(i, pipe[i], "fast-json", n > 0, n, k, 0, dbOk)
             /\ UNCHANGED heavy_sem
        ELSE \E nc \in 0..MaxCands :
               /\ pipe' = [pipe EXCEPT ![i] =
                            [@ EXCEPT !.sd = "no", !.left = nc,
                                      !.pc = IF nc > 0 THEN "api" ELSE "wait_heavy",
                                      !.heavy = (nc = 0)]]
               /\ UNCHANGED <<store, last, twin, global_sem, heavy_sem, domain_locks>>
    /\ UNCHANGED <<config, now, wpc, batch_num>>

\* mutant: `break` instead of `continue`, the first failing candidate sends
\* the pipeline to heavy_render
NextCandidate_Break(p) ==
    [p EXCEPT !.left = @ - 1, !.tried = TRUE, !.pc = "wait_heavy", !.heavy = TRUE]

\* `continue` / falling out of `if api_json:` in the candidate loop of
\* process_url: the next candidate is fetched, or heavy_render is called
\* when none is left.
NextCandidate(p) ==
    [p EXCEPT !.left = @ - 1, !.tried = TRUE,
              !.pc = IF p.left > 1 THEN "api" ELSE "wait_heavy",
              !.heavy = ~(p.left > 1)]

\* mutant: without the inner `except Exception: continue` a failing candidate
\* reaches the handler of process_url
ApiNothing_Raise(i) ==
    /\ pipe[i].pc = "api"
    /\ \E elen \in ErrLens, dbOk \in DbOk : HandleException(i, elen, dbOk)
    /\ UNCHANGED <<config, now, wpc, batch_num, heavy_sem>>

\* fetch_json_api for the current candidate returns None / an empty value, or
\* something inside the `try` raises (`except Exception: continue`)
ApiNothing(i) ==
    /\ pipe[i].pc = "api"
    /\ pipe' = [pipe EXCEPT ![i] = NextCandidate(@)]
    /\ UNCHANGED <<config, store, now, wpc, batch_num, last, twin,
                   global_sem, heavy_sem, domain_locks>>

\* fetch_json_api returns a truthy JSON value from which n products are
\* extracted (`if api_json:`); the block records stage fast-api and returns
ApiJson(i) ==
    /\ pipe[i].pc = "api"
    /\ \E n \in 0..MaxProducts, dbOk \in DbOk :
         \E k \in 0..n :
            Finish(i, pipe[i], "fast-api", n > 0, n, SavedAfter(pipe[i], n, k), 0, dbOk)
    /\ UNCHANGED <<config, now, wpc, batch_num, heavy_sem>>

\* mutant: the render starts without waiting for a free heavy permit
AcquireHeavy_NoWait(i) ==
    /\ pipe[i].pc = "wait_heavy"
    /\ heavy_sem' = heavy_sem - 1
    /\ pipe' = [pipe EXCEPT ![i].pc = "render1"]
    /\ UNCHANGED <<config, store, now, wpc, batch_num, last, twin, global_sem, domain_locks>>

\* heavy_render: async with heavy_sem
AcquireHeavy(i) ==
    /\ pipe[i].pc = "wait_heavy"
    /\ heavy_sem > 0
    /\ heavy_sem' = heavy_sem - 1
    /\ pipe' = [pipe EXCEPT ![i].pc = "render1"]
    /\ UNCHANGED <<config, store, now, wpc, batch_num, last, twin,
                   global_sem, domain_locks>>

\* mutant: the length test is `>=`, a document of exactly 1500 characters
\* is extracted
AfterRender_AtLeast(i, ok, len, n, k, dbOk) ==
    LET p == [pipe[i] EXCEPT !.rok = ok, !.rlen = len] IN
    IF ok /\ len >= MIN_RENDERED_LEN
    THEN Finish(i, p, "heavy", n > 0, n, SavedAfter(p, n, k), 0, dbOk)
    ELSE Finish(i, p, "failed", FALSE, p.found, p.saved, NO_CONTENT_LEN, dbOk)

\* After heavy_render has returned (res, rendered_html, _): the test
\* `res and res.success and rendered_html and len(rendered_html) > 1500`
\* selects the heavy block (extraction of n products, k saved) or the
\* failed block.  ok = FALSE stands for res = None or res.success false.
AfterRender(i, ok, len, n, k, dbOk) ==
    LET p == [pipe[i] EXCEPT !.rok = ok, !.rlen = len] IN
    IF ok /\ len > MIN_RENDERED_LEN
    THEN Finish(i, p, "heavy", n > 0, n, SavedAfter(p, n, k), 0, dbOk)
    ELSE Finish(i, p, "failed", FALSE, p.found, p.saved, NO_CONTENT_LEN, dbOk)

\* primary crawler.arun returns a result
RenderResult(i) ==
    /\ pipe[i].pc = "render1"
    /\ heavy_sem' = heavy_sem + 1
    /\ \E ok \in BOOLEAN, len \in RenderLens, n \in 0..MaxProducts, dbOk \in DbOk :
         \E k \in 0..n : AfterRender(i, ok, len, n, k, dbOk)
    /\ UNCHANGED <<config, now, wpc, batch_num>>

\* primary crawler.arun raises a timeout / wait-condition error: the
\* fallback configuration is run, the heavy permit is kept
RenderTimeout(i) ==
    /\ pipe[i].pc = "render1"
    /\ pipe' = [pipe EXCEPT ![i].pc = "render2"]
    /\ UNCHANGED <<config, store, now, wpc, batch_num, last, twin,
                   global_sem, heavy_sem, domain_locks>>

\* mutant: heavy_render returns (None, "", None) without leaving its
\* `async with heavy_sem` block, the heavy permit is kept
RenderError_KeepHeavy(i) ==
    /\ pipe[i].pc = "render1"
    /\ heavy_sem' = heavy_sem
    /\ \E dbOk \in DbOk : AfterRender(i, FALSE, 0, 0, 0, dbOk)
    /\ UNCHANGED <<config, now, wpc, batch_num>>

\* primary crawler.arun raises any other error: heavy_render returns
\* (None, "", None)
RenderError(i) ==
    /\ pipe[i].pc = "render1"
    /\ heavy_sem' = heavy_sem + 1
    /\ \E dbOk \in DbOk : AfterRender(i, FALSE, 0, 0, 0, dbOk)
    /\ UNCHANGED <<config, now, wpc, batch_num>>

\* the browser cannot be started (`async with AsyncWebCrawler(...)` raises
\* outside the inner try): the exception leaves heavy_render, which
\* releases the heavy permit, and reaches the handler of process_url
RenderStartRaise(i) ==
    /\ pipe[i].pc = "render1"
    /\ heavy_sem' = heavy_sem + 1
    /\ \E elen \in ErrLens, dbOk \in DbOk : HandleException(i, elen, dbOk)
    /\ UNCHANGED <<config, now, wpc, batch_num>>

\* fallback crawler.arun returns a result, or raises (-> (None, "", None))
RenderFallback(i) ==
    /\ pipe[i].pc = "render2"
    /\ heavy_sem' = heavy_sem + 1
    /\ \E ok \in BOOLEAN, len \in RenderLens, n \in 0..MaxProducts, dbOk \in DbOk :
         \E k \in 0..n : AfterRender(i, ok, len, n, k, dbOk)
    /\ UNCHANGED <<config, now, wpc, batch_num>>

\* ----------------------------------------------------------- main_from_db
\* `if max_batches and batch_num >= max_batches: break`
LimitReached == max_batches # NoLimit /\ max_batches # 0 /\ batch_num >= max_batches

\* top of the while loop: limit test, claim cycle, empty test, task creation
MainLoop ==
    /\ wpc = "loop"
    /\ IF LimitReached
       THEN /\ wpc' = "finished"
            /\ UNCHANGED <<store, batch_num, pipe, last, twin>>
       ELSE \E r \in FetchPendingResults(store, now, batch_size, WORKER, db_faults) :
              /\ store' = r.store
              /\ IF r.urls = {}
                 THEN /\ wpc' = "finished"
                      /\ UNCHANGED <<batch_num, pipe, last, twin>>
                 ELSE /\ wpc' = "gather"
                      /\ batch_num' = batch_num + 1
                      /\ pipe' = [i \in Items |->
                                    IF i \in r.urls THEN [NoTask EXCEPT !.pc = "wait_domain"]
                                    ELSE NoTask]
                      /\ UNCHANGED <<last, twin>>
    /\ UNCHANGED <<config, now, global_sem, heavy_sem, domain_locks>>

\* mutant: the wait ends with the first task that returns
GatherReturn_First ==
    /\ wpc = "gather"
    /\ \E i \in Items : pipe[i].pc = "done"
    /\ \A i \in Items : pipe[i].pc # "raised"
    /\ wpc' = "sleep"
    /\ pipe' = [i \in Items |-> IF pipe[i].pc = "done" THEN NoTask ELSE pipe[i]]
    /\ UNCHANGED <<config, store, now, batch_num, last, twin,
                   global_sem, heavy_sem, domain_locks>>

\* asyncio.gather(*tasks) returns: every task of the batch has returned
\* (the task objects are dropped)
GatherReturn ==
    /\ wpc = "gather"
    /\ \A i \in Items : pipe[i].pc \in {"none", "done"}
    /\ wpc' = "sleep"
    /\ pipe' = [i \in Items |-> NoTask]
    /\ UNCHANGED <<config, store, now, batch_num, last, twin,
                   global_sem, heavy_sem, domain_locks>>

\* asyncio.gather(*tasks) re-raises the exception of a task: main_from_db is
\* left through its `finally`, asyncio.run cancels the tasks still in
\* flight, each of which gives back the permits it holds
GatherRaise ==
    /\ wpc = "gather"
    /\ \E i \in Items : pipe[i].pc = "raised"
    /\ wpc' = "aborted"
    /\ pipe' = [i \in Items |->
                  IF pipe[i].pc = "none" \/ Terminal(pipe[i]) THEN pipe[i]
                  ELSE [pipe[i] EXCEPT !.pc = "cancelled"]]
    /\ global_sem' = global_sem + Cardinality({i \in Items : HoldsGlobal(pipe[i])})
    /\ heavy_sem' = heavy_sem + Cardinality({i \in Items : HoldsHeavy(pipe[i])})
    /\ domain_locks' = [d \in DOMAIN domain_locks |->
                          domain_locks[d]
                          + Cardinality({i \in Items : HoldsDomain(pipe[i]) /\ DomainOf(i) = d})]
    /\ UNCHANGED <<config, store, now, batch_num, last, twin>>

\* await asyncio.sleep(1), back to the top of the loop
SleepDone ==
    /\ wpc = "sleep"
    /\ wpc' = "loop"
    /\ UNCHANGED <<config, store, now, batch_num, pipe, last, twin,
                   global_sem, heavy_sem, domain_locks>>

\* ------------------------------------------- one URL with concrete content
\* The content process_url sees for the URL under study: final_url, the
\* products extract_products_from_html finds in the static HTML, the blocks
\* extract_ld_json returns, the value extract_inline_json returns, the value
\* fetch_json_api returns for each candidate of find_xhr_candidates (JNull:
\* None), the blocks of the rendered document, and the state of the product
\* store.
MakePage(ld, api, db) ==
    [final_url |-> "https://s.io/c", cards |-> <<>>, ld |-> ld, inline |-> JNull,
     api |-> api, rendered_ld |-> <<>>, db |-> db]

NoPage == MakePage(<<>>, <<>>, "none")
\* the locals of process_url for the URL under study
NoPageRun == [pc |-> "none", stage |-> "none", ok |-> FALSE, products |-> <<>>,
              found |-> 0, saved |-> 0, fetched |-> 0, renders |-> 0]

\* --------------------------------------------------------- worker processes
\* worker ids: f"{socket.gethostname()}-{os.getpid()}" of two processes
Workers == {WORKER, "host-2"}
\* the instants at which the workers take their steps: from the first
\* claim, just under, exactly and just over the stale threshold
Instants == {0, STUCK_MINUTES - 1, STUCK_MINUTES, STUCK_MINUTES + 1}

\* One worker process: its position (idle: top of the loop of main_from_db;
\* select, claim: inside fetch_pending_urls_from_db; run: awaiting gather;
\* stopped: the loop was left), the rows its select returned, those the
\* claim loop has not updated yet, whether the stale reset of this call
\* succeeded, and the rows whose claim update failed in this call.
NoWorkerRun == [pc |-> "none", urls |-> {}, todo |-> {}, reset |-> "none", cfail |-> {}]

\* The workers, and how a row came to be held by two of them (race:
\* selected by the second before the first marked it; stale: selected
\* after a stale reset while the first still runs it), followed by the
\* outcomes stored for it since.
NoQueue == [wk |-> [w \in Workers |-> NoWorkerRun],
            kind |-> [i \in Items |-> "none"]]

\* ------------------------------------------------ the calls wrapped in @retry
\* no insert has been answered
NoAnswer == [kind |-> "none", class |-> "none", msg |-> ""]

\* no call of save_products_to_supabase has started: its position, the
\* products it was given, the index of the record in hand, the insert
\* attempts made for it and the answer to the last of them, the two
\* counters, and for the record it was done with last the attempts made,
\* the last answer of the product store and how the record was counted
NoSave == [pc |-> "none", products |-> <<>>, idx |-> 0, attempt |-> 0,
           answer |-> NoAnswer, saved_count |-> 0, failed_count |-> 0,
           done |-> [attempts |-> 0, answer |-> NoAnswer, counted |-> "none"]]

\* no call of fetch_json_api has started: its position, the candidate URL,
\* the runs of the function body, the requests sent, what it returned and
\* why the last request gave nothing
NoFetch == [pc |-> "none", api_url |-> "", attempts |-> 0, requests |-> 0,
            result |-> "none", failure |-> "none"]

\* heavy_render has not been called: the URL and the selector it is given,
\* the configurations crawler.arun was run with, the messages of the
\* exceptions it raised, what heavy_render returned (res: "none" before it
\* returns, "None", or the result with its success flag; the length of the
\* html) and the stage process_url ends with
NoRender == [url |-> "", expected_selector |-> None, runs |-> <<>>, raised |-> <<>>,
             res |-> "none", html_len |-> 0, stage |-> "none"]

\* main of restart_wrapper.py has not been called: its position, the local
\* cycle, the global PROCESS (0: None, else the number of the child Popen
\* returned last), the children started so far (running or exited),
\* elapsed in seconds, and how the child of the last finished cycle ended
NoWrapper == [pc |-> "none", cycle |-> 1, PROCESS |-> 0,
              child |-> [c \in 1..MaxCycles |-> "none"],
              elapsed |-> 0, stop |-> "none"]

\* no function on product candidates has been called: the function, its
\* position, the candidate, the candidates or the price text it is given,
\* and what it returned (for _dedupe_products also what it returns for its
\* own result, for _is_valid_product also the number of rows claimed and
\* of products counted by the save when it returned, and what a second call
\* returns, for _extract_products_from_json the shape of the JSON value
\* and max_items, for save_products_to_supabase the candidate of one round
\* of its loop and the record it hands to the insert, for the restart
\* wrapper its own state)
NoCall == [op |-> "none", pc |-> "none", product |-> [title |-> None, product_url |-> None, price |-> NoNumber],
           products |-> <<>>, valid |-> FALSE, out |-> <<>>, again |-> <<>>,
           raw |-> None, parsed |-> [price |-> NoNumber, currency |-> None],
           env |-> <<>>, valid_again |-> FALSE, render |-> NoRender,
           shape |-> [nest |-> 0, wrap |-> "list", leaf |-> "object"], max_items |-> 0,
           cand |-> <<>>, db_data |-> <<>>, wrapper |-> NoWrapper]

Init ==
    /\ InitWorker
    /\ db_faults = FALSE
    /\ batch_size = BatchSize
    /\ max_batches = NoLimit
    /\ page = NoPage /\ prun = NoPageRun
    /\ queue = NoQueue
    /\ save = NoSave /\ fetch = NoFetch /\ call = NoCall

Next ==
    \/ MainLoop
    \/ GatherReturn
    \/ GatherRaise
    \/ SleepDone
    \/ \E i \in Items : AcquireDomain(i)
    \/ \E i \in Items : AcquireGlobal(i)
    \/ \E i \in Items : FetchRaise(i)
    \/ \E i \in Items : FetchReturn(i)
    \/ \E i \in Items : ApiNothing(i)
    \/ \E i \in Items : ApiJson(i)
    \/ \E i \in Items : AcquireHeavy(i)
    \/ \E i \in Items : RenderResult(i)
    \/ \E i \in Items : RenderTimeout(i)
    \/ \E i \in Items : RenderError(i)
    \/ \E i \in Items : RenderStartRaise(i)
    \/ \E i \in Items : RenderFallback(i)

Spec == Init /\ [][Next]_vars

\* ------------------------------------------------- contents under study
\* a structured-data block for the product "Blue Shirt": with or without
\* "@type": "Product", the price 19.99 as the key "price", inside "offers",
\* or absent
ShirtBlock(typed, url, priceAt) ==
    JDict((IF typed THEN <<<<"@type", JStr("Product")>>>> ELSE <<>>)
          \o <<<<"name", JStr("Blue Shirt")>>, <<"url", JStr(url)>>>>
          \o (IF priceAt = "price" THEN <<<<"price", JStr("19.99")>>>>
              ELSE IF priceAt = "offers"
              THEN <<<<"offers", JDict(<<<<"price", JStr("19.99")>>>>)>>>>
              ELSE <<>>))

OrganizationBlock == JDict(<<<<"@type", JStr("Organization")>>, <<"name", JStr("Shop")>>>>)

\* a product object of an API response: name, url, price and an id that is
\* absent, a string or a number
ApiObject(n, typed, idKind) ==
    JDict((IF typed THEN <<<<"@type", JStr("Product")>>>> ELSE <<>>)
          \o (IF idKind = "str" THEN <<<<"id", JStr(n)>>>>
              ELSE IF idKind = "num" THEN <<<<"id", JNum(n)>>>>
              ELSE <<>>)
          \o <<<<"name", JStr("Hat " \o n)>>, <<"url", JStr("/p/hat-" \o n)>>,
               <<"price", JNum(n \o ".5")>>>>)

\* a JSON array of three distinct product objects
ApiArray(typed, idKind) ==
    JList(<<ApiObject("1", typed, idKind), ApiObject("2", typed, idKind),
            ApiObject("3", typed, idKind)>>)

StatusOnly == JDict(<<<<"status", JStr("ok")>>>>)

LdPages ==
    {<<ShirtBlock(typed, url, priceAt)>> :
        typed \in BOOLEAN, url \in {"/p/blue-shirt", "/x"}, priceAt \in {"price", "offers", "none"}}
    \cup {<<OrganizationBlock>>}
ApiPages ==
    {<<ApiArray(typed, idKind)>> : typed \in BOOLEAN, idKind \in {"none", "str", "num"}}
    \cup {<<>>, <<JNull>>, <<StatusOnly>>, <<JNull, ApiArray(FALSE, "none")>>}
Pages ==
    {MakePage(ld, <<>>, db) : ld \in LdPages, db \in {"up", "down"}}
    \cup {MakePage(<<>>, api, db) : api \in ApiPages, db \in {"up", "down"}}

InitPage ==
    /\ InitWorker
    /\ GLOBAL_CONCURRENCY = 1 /\ netloc = OneSite /\ ~manifest_open
    /\ db_faults = FALSE
    /\ batch_size = BatchSize
    /\ max_batches = NoLimit
    /\ queue = NoQueue
    /\ save = NoSave /\ fetch = NoFetch /\ call = NoCall
    /\ page \in Pages
    /\ prun = [NoPageRun EXCEPT !.pc = "fetch"]

\* a terminal block of process_url: the counts, `success = products_found > 0`,
\* the stage
PageDone(stage, products, fetched, renders) ==
    prun' = [prun EXCEPT !.pc = "done", !.stage = stage, !.products = products,
                         !.fetched = fetched, !.renders = renders,
                         !.found = Len(products),
                         !.saved = IF Len(products) > 0
                                   THEN SaveProductsToSupabase(products, page.db) ELSE 0,
                         !.ok = Len(products) > 0]

\* fetch_html has returned: the fast-json block when `ld or inline`, else
\* the candidate loop, else heavy_render
PageFetchReturn ==
    /\ prun.pc = "fetch"
    /\ IF Len(page.ld) > 0 \/ Truthy(page.inline)
       THEN PageDone("fast-json",
                     ExtractProductsFromSources(page.cards, page.ld, page.inline,
                                                page.final_url, MAX_PRODUCTS_PER_PAGE),
                     prun.fetched, prun.renders)
       ELSE prun' = [prun EXCEPT !.pc = IF Len(page.api) > 0 THEN "api" ELSE "render"]
    /\ UNCHANGED <<worker, page>>

\* fetch_json_api has returned for the next candidate: the fast-api block
\* when `api_json` is truthy, else the next candidate or heavy_render
PageApiReturn ==
    /\ prun.pc = "api"
    /\ LET api_json == page.api[prun.fetched + 1]
       IN IF Truthy(api_json)
          THEN PageDone("fast-api",
                        DedupeProducts(ExtractProductsFromJson(api_json, page.final_url,
                                                               MAX_PRODUCTS_PER_PAGE, 0)),
                        prun.fetched + 1, prun.renders)
          ELSE prun' = [prun EXCEPT !.fetched = @ + 1,
                                    !.pc = IF prun.fetched + 1 < Len(page.api)
                                           THEN "api" ELSE "render"]
    /\ UNCHANGED <<worker, page>>

\* heavy_render has returned: the heavy block for a successful render of
\* more than 1500 characters, else the failed block
PageRenderReturn ==
    /\ prun.pc = "render"
    /\ \E ok \in BOOLEAN, len \in RenderLens :
         IF ok /\ len > MIN_RENDERED_LEN
         THEN PageDone("heavy",
                       ExtractProductsFromSources(<<>>, page.rendered_ld, JNull,
                                                  page.final_url, MAX_PRODUCTS_PER_PAGE),
                       prun.fetched, prun.renders + 1)
         ELSE prun' = [prun EXCEPT !.pc = "done", !.stage = "failed", !.ok = FALSE,
                                   !.renders = @ + 1]
    /\ UNCHANGED <<worker, page>>

NextPage == PageFetchReturn \/ PageApiReturn \/ PageRenderReturn

SpecPage == InitPage /\ [][NextPage]_vars

\* ------------------------------------------------ several workers, one store
\* Worker processes share only the product_page_urls table.  Each database
\* call of fetch_pending_urls_from_db and each outcome write-back is one
\* step, so the calls of different workers interleave; the pipeline of a
\* claimed row is reduced to the write-back that ends it.  Time passes
\* between any two steps.
QReturn(w, urls) ==
    [queue.wk[w] EXCEPT !.pc = IF urls = {} THEN "stopped" ELSE "run", !.urls = urls, !.todo = {}]

\* the stale-reset update at the start of fetch_pending_urls_from_db; its
\* failure is logged and the function goes on
QReset(w) ==
    /\ queue.wk[w].pc = "idle"
    /\ \E ok \in DbOk :
         /\ store' = IF ok THEN ResetStuck(store, now) ELSE store
         /\ queue' = [queue EXCEPT
                !.wk[w] = [@ EXCEPT !.pc = "select", !.cfail = {},
                                    !.reset = IF ok THEN "ok" ELSE "failed"]]
    /\ UNCHANGED <<settings, study, batch, now>>

\* the select of the pending rows; an exception reaches the outer handler,
\* which returns []; an empty result is returned as it is; otherwise the
\* claim loop starts.  A row another worker has selected and not marked
\* is selected a second time (race); so is a row another worker has marked
\* and still runs, which is pending again only after a stale reset (stale).
QSelect(w) ==
    /\ queue.wk[w].pc = "select"
    /\ \E ok \in DbOk, S \in Selections(store, batch_size) :
         LET raced == {i \in S : \E v \in Workers \ {w} :
                                    i \in queue.wk[v].todo \cup queue.wk[v].cfail}
             stale == {i \in S \ raced : \E v \in Workers \ {w} : i \in queue.wk[v].urls}
         IN IF ~ok THEN queue' = [queue EXCEPT !.wk[w] = QReturn(w, {})]
            ELSE queue' = [queue EXCEPT
                   !.wk[w] = IF S = {} THEN QReturn(w, {})
                             ELSE [@ EXCEPT !.pc = "claim", !.urls = S, !.todo = S],
                   !.kind = [i \in Items |-> IF i \in raced THEN "race"
                                             ELSE IF i \in stale THEN "stale"
                                             ELSE IF i \in S THEN "none"
                                             ELSE @[i]]]
    /\ UNCHANGED <<settings, study, batch, store, now>>

\* the id the claim loop updates next (url_ids in the order of the result)
NextId(todo) == CHOOSE i \in todo : \A j \in todo : i <= j

\* mutant: a failing claim update is not swallowed; it reaches the outer
\* handler, which returns []
QClaim_Escape(w) ==
    /\ queue.wk[w].pc = "claim"
    /\ LET url_id == NextId(queue.wk[w].todo) IN
       \E ok \in DbOk :
         /\ store' = IF ok THEN ClaimRows(store, {url_id}, w, now) ELSE store
         /\ queue' = [queue EXCEPT !.wk[w] =
                IF ~ok THEN QReturn(w, {})
                ELSE IF queue.wk[w].todo = {url_id} THEN QReturn(w, queue.wk[w].urls)
                ELSE [@ EXCEPT !.todo = @ \ {url_id}]]
    /\ UNCHANGED <<settings, study, batch, now>>

\* one round of the claim loop: the update of one selected row, by id; a
\* failure is swallowed.  After the last round the function returns the
\* selected rows.
QClaim(w) ==
    /\ queue.wk[w].pc = "claim"
    /\ LET url_id == NextId(queue.wk[w].todo) IN
       \E ok \in DbOk :
         /\ store' = IF ok THEN ClaimRows(store, {url_id}, w, now) ELSE store
         /\ queue' = [queue EXCEPT !.wk[w] =
                LET r == [@ EXCEPT !.todo = @ \ {url_id},
                                   !.cfail = IF ok THEN @ ELSE @ \cup {url_id}]
                IN IF r.todo = {} THEN [r EXCEPT !.pc = "run"] ELSE r]
    /\ UNCHANGED <<settings, study, batch, now>>

\* the double processing of a row after one more stored outcome: the
\* first of the two, then the second with what it reported
Written(kind, success) ==
    CASE kind = "race" -> "race-1"
      [] kind = "race-1" -> IF success THEN "race-ok" ELSE "race-failed"
      [] kind = "stale" -> "stale-1"
      [] kind = "stale-1" -> IF success THEN "stale-ok" ELSE "stale-failed"
      [] OTHER -> kind

\* the pipeline of one returned row ends with its write-back; after the
\* last one gather returns and the worker is back at the top of its loop
QOutcome(w) ==
    /\ queue.wk[w].pc = "run"
    /\ \E i \in queue.wk[w].urls, success \in BOOLEAN, ok \in DbOk :
         /\ store' = UpdateUrlResult(store, i, success, IF success THEN 1 ELSE 0,
                                     IF success THEN 1 ELSE 0,
                                     IF success THEN 0 ELSE NO_CONTENT_LEN, ok)
         /\ queue' = [queue EXCEPT
                !.wk[w] = [@ EXCEPT !.urls = @ \ {i},
                                    !.pc = IF queue.wk[w].urls = {i} THEN "idle" ELSE "run"],
                !.kind[i] = IF ok THEN Written(@, success) ELSE @]
    /\ UNCHANGED <<settings, study, batch, now>>

\* time passes, up to the next instant at which a step is taken
Tick ==
    /\ \E t \in Instants : t > now /\ now' = t
    /\ UNCHANGED <<settings, study, batch, store, queue>>

\* two workers, a task store that answers every call
InitQueue ==
    /\ InitWorker
    /\ GLOBAL_CONCURRENCY = 1 /\ netloc = OneSite /\ ~manifest_open
    /\ db_faults = FALSE
    /\ batch_size = BatchSize
    /\ max_batches = NoLimit
    /\ page = NoPage /\ prun = NoPageRun
    /\ queue = [NoQueue EXCEPT !.wk = [w \in Workers |-> [NoWorkerRun EXCEPT !.pc = "idle"]]]
    /\ save = NoSave /\ fetch = NoFetch /\ call = NoCall

\* one worker, a task store whose calls can fail
InitFaulty ==
    /\ InitWorker
    /\ GLOBAL_CONCURRENCY = 1 /\ netloc = OneSite /\ ~manifest_open
    /\ db_faults = TRUE
    /\ batch_size \in {1, BatchSize}
    /\ max_batches = NoLimit
    /\ page = NoPage /\ prun = NoPageRun
    /\ queue = [NoQueue EXCEPT !.wk[WORKER].pc = "idle"]
    /\ save = NoSave /\ fetch = NoFetch /\ call = NoCall

NextQueue ==
    \/ Tick
    \/ \E w \in Workers : QReset(w)
    \/ \E w \in Workers : QSelect(w)
    \/ \E w \in Workers : QClaim(w)
    \/ \E w \in Workers : QOutcome(w)

SpecQueue == InitQueue /\ [][NextQueue]_vars

SpecFaulty == InitFaulty /\ [][NextQueue]_vars

\* --------------------------------------------- one worker, started with a limit
\* main_from_db started with --max-batches absent, 0 or 1 and a batch size
\* of one row or of BatchSize rows, two pipelines running at a time
InitLimited ==
    /\ InitWorker
    /\ GLOBAL_CONCURRENCY = 2
    /\ db_faults = FALSE
    /\ batch_size \in {1, BatchSize}
    /\ max_batches \in {NoLimit, 0, 1}
    /\ page = NoPage /\ prun = NoPageRun
    /\ queue = NoQueue
    /\ save = NoSave /\ fetch = NoFetch /\ call = NoCall

SpecLimited == InitLimited /\ [][Next]_vars

\* one batch of one row over a task store that answers every call, and
\* over one whose calls can fail
InitWriteFaults ==
    /\ InitWorker
    /\ GLOBAL_CONCURRENCY = 1 /\ netloc = OneSite
    /\ db_faults \in BOOLEAN
    /\ batch_size = 1
    /\ max_batches = 1
    /\ page = NoPage /\ prun = NoPageRun
    /\ queue = NoQueue
    /\ save = NoSave /\ fetch = NoFetch /\ call = NoCall

SpecWriteFaults == InitWriteFaults /\ [][Next]_vars

\* --------------------------------------------- the fast-API path, call by call
\* One candidate of find_xhr_candidates is fetched with fetch_json_api and
\* the products found in its answer are stored with
\* save_products_to_supabase; every request and every insert is one step.

\* the records handed to save_products_to_supabase
Records ==
    {[title |-> "Blue Shirt", product_url |-> "https://s.io/p/1"],
     [title |-> "Unique Mug", product_url |-> "https://s.io/p/2"],
     [title |-> None, product_url |-> "https://s.io/p/3"]}

RecordLists == UNION {[1..n -> Records] : n \in 1..MaxRecords}

\* the candidate URLs
ApiUrls == {"https://s.io/api/products", "https://s.io/_api/wix/catalog-reader"}

\* What the product store answers to the insert of the record named name:
\* the stored row, no row, or an exception of one of the classes unique
\* violation, check violation (its detail lists the failing row), invalid
\* input, server error, network error; msg is str(e), cut down to the
\* words that tell the classes apart.
Answers(name) ==
    {[kind |-> "row", class |-> "none", msg |-> ""],
     [kind |-> "empty", class |-> "none", msg |-> ""],
     [kind |-> "error", class |-> "unique",
      msg |-> "duplicate key value"],
     [kind |-> "error", class |-> "check",
      msg |-> "violates check constraint (" \o name \o ")"],
     [kind |-> "error", class |-> "invalid",
      msg |-> "invalid input syntax"],
     [kind |-> "error", class |-> "server",
      msg |-> "500 Server Error"],
     [kind |-> "error", class |-> "network",
      msg |-> "timed out"]}

\* the except branch of _insert_product_with_retry on error_msg
OnInsertError(error_msg) ==
    IF \/ Contains(error_msg, "duplicate")
       \/ Contains(error_msg, "unique")
       \/ Contains(error_msg, "violates unique constraint")
    THEN "true"
    ELSE IF \/ Contains(error_msg, "violates check constraint")
            \/ Contains(error_msg, "invalid input")
    THEN "false"
    ELSE "raise"

\* one run of the body of _insert_product_with_retry
InsertOnce(answer) ==
    CASE answer.kind = "row" -> "true"
      [] answer.kind = "empty" -> "false"
      [] OTHER -> OnInsertError(Lower(answer.msg))

\* the record is done with: counted, and the loop goes to the next one
Counted(s, attempts, answer, as) ==
    [s EXCEPT !.pc = "next", !.idx = @ + 1, !.attempt = 0, !.answer = NoAnswer,
              !.saved_count = IF as = "saved" THEN @ + 1 ELSE @,
              !.failed_count = IF as = "failed" THEN @ + 1 ELSE @,
              !.done = [attempts |-> attempts, answer |-> answer, counted |-> as]]

\* top of the loop of save_products_to_supabase: the fields are sanitized,
\* a record without product_name or product_url is skipped; after the last
\* record saved_count is returned
SaveNext ==
    /\ save.pc = "next"
    /\ IF save.idx > Len(save.products)
       THEN save' = [save EXCEPT !.pc = "returned"]
       ELSE LET product == save.products[save.idx] IN
            IF \/ SanitizeText(product.title, 500) = None
               \/ SanitizeUrl(product.product_url) = None
            THEN save' = Counted(save, 0, NoAnswer, "failed")
            ELSE save' = [save EXCEPT !.pc = "insert"]
    /\ UNCHANGED <<settings, store, now, batch, page, prun, queue, fetch, call>>

\* mutant: the wrapper gives up after the first exception
AfterInsert_NoRetry(s, answer, r) ==
    CASE r = "true" -> Counted(s, s.attempt + 1, answer, "saved")
      [] r = "false" -> Counted(s, s.attempt + 1, answer, "failed")
      [] OTHER -> Counted(s, s.attempt + 1, answer, "failed")

\* After one run of the body: True and False are returned to
\* save_products_to_supabase; an exception makes the wrapper run the body
\* again, and after the third it raises RetryError, which
\* save_products_to_supabase catches and counts as failed.
AfterInsert(s, answer, r) ==
    CASE r = "true" -> Counted(s, s.attempt + 1, answer, "saved")
      [] r = "false" -> Counted(s, s.attempt + 1, answer, "failed")
      [] OTHER -> IF s.attempt + 1 < INSERT_ATTEMPTS
                  THEN [s EXCEPT !.attempt = @ + 1, !.answer = answer]
                  ELSE Counted(s, s.attempt + 1, answer, "failed")

\* one insert attempt for the record in hand
InsertAttempt ==
    /\ save.pc = "insert"
    /\ \E answer \in Answers(SanitizeText(save.products[save.idx].title, 500)) :
         save' = AfterInsert(save, answer, InsertOnce(answer))
    /\ UNCHANGED <<settings, store, now, batch, page, prun, queue, fetch, call>>

\* is_wix = 'wix' in api_url or 'catalog-reader' in api_url
IsWix(api_url) == Contains(api_url, "wix") \/ Contains(api_url, "catalog-reader")

\* what a POST to a Wix endpoint can bring: status 200 with JSON, another
\* status, an exception
PostAnswers == {"json", "status", "raise"}
\* what the GET can bring: a JSON text, a JSONP text, a server error page,
\* an exception (connection error, timeout)
GetAnswers == {"json", "jsonp", "server", "network"}

\* One run of the body of fetch_json_api: "json" for the parsed value,
\* "null" for None.  The POST returns on status 200 and falls through to
\* the GET otherwise (`except Exception: pass`); the GET parses the text,
\* with the JSONP wrapper stripped if need be, and every exception ends in
\* `except Exception: return None`.  No exception leaves the body.
FetchBody(is_wix, post, get) ==
    IF is_wix /\ post = "json" THEN [out |-> "json", requests |-> 1, failure |-> "none"]
    ELSE [out |-> IF get \in {"json", "jsonp"} THEN "json" ELSE "null",
          requests |-> IF is_wix THEN 2 ELSE 1,
          failure |-> IF get \in {"json", "jsonp"} THEN "none" ELSE get]

\* One run of the body under @retry(stop_after_attempt(API_RETRY_ATTEMPTS),
\* retry_if_exception_type(Exception)): the wrapper runs the body again
\* only when an exception leaves it.  A truthy value starts the save of the
\* products found in it.
ApiCall ==
    /\ fetch.pc = "call"
    /\ \E post \in PostAnswers, get \in GetAnswers :
         LET r == FetchBody(IsWix(fetch.api_url), post, get) IN
         /\ fetch' = [fetch EXCEPT
                !.attempts = @ + 1,
                !.requests = @ + r.requests,
                !.failure = r.failure,
                !.result = r.out,
                !.pc = IF r.out = "raise" /\ fetch.attempts + 1 < API_RETRY_ATTEMPTS
                       THEN "call" ELSE "returned"]
         /\ save' = IF r.out = "json" THEN [save EXCEPT !.pc = "next", !.idx = 1]
                    ELSE save
    /\ UNCHANGED <<settings, store, now, batch, page, prun, queue, call>>

InitRetry ==
    /\ InitWorker
    /\ GLOBAL_CONCURRENCY = 1 /\ netloc = OneSite /\ ~manifest_open
    /\ db_faults = FALSE
    /\ batch_size = BatchSize
    /\ max_batches = NoLimit
    /\ page = NoPage /\ prun = NoPageRun
    /\ queue = NoQueue
    /\ call = NoCall
    /\ \E api_url \in ApiUrls : fetch = [NoFetch EXCEPT !.pc = "call", !.api_url = api_url]
    /\ \E products \in RecordLists : save = [NoSave EXCEPT !.products = products]

NextRetry ==
    \/ ApiCall
    \/ SaveNext
    \/ InsertAttempt

SpecRetry == InitRetry /\ [][NextRetry]_vars

\* ------------------------------------------ the functions on product candidates
\* _is_valid_product, _dedupe_products and _parse_price, each called on its
\* own with the candidates and the texts the extractors can hand to it.

\* the page the candidates come from
BaseUrl == "https://s.io/c"

\* product_url, title and price of the candidates under validation: no
\* URL, a path without product shape, a product-shaped one, blacklisted
\* ones, a scheme that is no page, a path of two segments without and with
\* a negative keyword, a last segment of digits only and one with a digit;
\* no title, one and two characters, padded ones; no price, zero, ten
ValidUrls ==
    {None, "", "/x", "/p/1", "/login", "/products/Login", "mailto:a@s.io",
     "/men/shirts", "/search/shirts", "/123", "/a1"}
ValidTitles == {None, "", "A", "AB", " A ", "Login"}
ValidPrices == {NoNumber, 0, 1000}

\* the candidates under deduplication: the same URL with and without
\* surrounding white space, another URL, no URL with the same title written
\* in several ways, neither URL nor title
DedupeCandidates ==
    {[title |-> "Blue Shirt", product_url |-> "https://s.io/p/1", price |-> 1000],
     [title |-> "Red Shirt", product_url |-> "https://s.io/p/1 ", price |-> 1000],
     [title |-> "Blue Shirt", product_url |-> "https://s.io/p/2", price |-> 1000],
     [title |-> "Blue  Shirt", product_url |-> None, price |-> 1000],
     [title |-> "Blue Shirt", product_url |-> "", price |-> 0],
     [title |-> None, product_url |-> None, price |-> 1000]}

CandidateLists == UNION {[1..n -> DedupeCandidates] : n \in 1..MaxSeq}

\* the price texts under parsing: none, no number, each currency by its
\* symbol and by its code, several currencies in one text, a number after a
\* dot, a number with two dots, separators, surrounding white space
PriceTexts ==
    {None, "", "Free", "₹1,299.00", "$19.99", "€5", "£7.50", "Rs. 500", "Rs 500",
     "INR 20", "usd 3", "EUR 1,5", "12 GBP", " 12 ", "1.2.3", "1,299", "No. 5",
     "$5 or €4", "€4 or £3", "£3 or ₹250", "USD 1 INR 83", "GBP then EUR 2",
     "5 dollars", "from 10 to 20", "0", "..."}

\* _parse_price(raw) returns
CallParsePrice ==
    /\ call.op = "_parse_price" /\ call.pc = "call"
    /\ call' = [call EXCEPT !.pc = "returned", !.parsed = ParsePrice(call.raw)]
    /\ UNCHANGED <<settings, store, now, batch, page, prun, queue, save, fetch>>

\* _is_valid_product(product, base_url) returns
CallIsValidProduct ==
    /\ call.op = "_is_valid_product" /\ call.pc = "call"
    /\ call' = [call EXCEPT !.pc = "returned",
                            !.valid = IsValidProduct(call.product, BaseUrl),
                            !.env = <<Cardinality({i \in Items : store[i].processing_status # "pending"}),
                                      save.saved_count + save.failed_count>>]
    /\ UNCHANGED <<settings, store, now, batch, page, prun, queue, save, fetch>>

\* _dedupe_products(products) returns
CallDedupeProducts ==
    /\ call.op = "_dedupe_products" /\ call.pc = "call"
    /\ call' = [call EXCEPT !.pc = "returned", !.out = DedupeProducts(call.products)]
    /\ UNCHANGED <<settings, store, now, batch, page, prun, queue, save, fetch>>

\* _dedupe_products is called on its own result
CallDedupeAgain ==
    /\ call.op = "_dedupe_products" /\ call.pc = "returned"
    /\ call' = [call EXCEPT !.pc = "twice", !.again = DedupeProducts(call.out)]
    /\ UNCHANGED <<settings, store, now, batch, page, prun, queue, save, fetch>>

InitCalls ==
    /\ InitWorker
    /\ GLOBAL_CONCURRENCY = 1 /\ netloc = OneSite /\ ~manifest_open
    /\ db_faults = FALSE
    /\ batch_size = BatchSize
    /\ max_batches = NoLimit
    /\ page = NoPage /\ prun = NoPageRun
    /\ queue = NoQueue
    /\ save = NoSave /\ fetch = NoFetch
    /\ \/ \E u \in ValidUrls, t \in ValidTitles, p \in ValidPrices :
            call = [NoCall EXCEPT !.op = "_is_valid_product", !.pc = "call",
                                  !.product = [title |-> t, product_url |-> u, price |-> p]]
       \/ \E products \in CandidateLists :
            call = [NoCall EXCEPT !.op = "_dedupe_products", !.pc = "call",
                                  !.products = products]
       \/ \E raw \in PriceTexts :
            call = [NoCall EXCEPT !.op = "_parse_price", !.pc = "call", !.raw = raw]

NextCalls ==
    \/ CallIsValidProduct
    \/ CallDedupeProducts
    \/ CallDedupeAgain
    \/ CallParsePrice

SpecCalls == InitCalls /\ [][NextCalls]_vars

\* ------------------------------- _is_valid_product among other operations
\* _is_valid_product is called twice on one candidate while the worker
\* claims rows and writes outcomes and products are saved.

\* the candidates validated twice: one accepted by title and price, one
\* rejected for the missing price
PureCandidates ==
    {[title |-> "AB", product_url |-> "/x", price |-> 1000],
     [title |-> "AB", product_url |-> "/x", price |-> NoNumber]}

\* _is_valid_product(product, base_url) returns a second time
CallIsValidAgain ==
    /\ call.op = "_is_valid_product" /\ call.pc = "returned"
    /\ call' = [call EXCEPT !.pc = "twice",
                            !.valid_again = IsValidProduct(call.product, BaseUrl)]
    /\ UNCHANGED <<settings, store, now, batch, page, prun, queue, save, fetch>>

\* one worker on a task store that answers, one product about to be saved
InitPure ==
    /\ InitWorker
    /\ GLOBAL_CONCURRENCY = 1 /\ netloc = OneSite /\ ~manifest_open
    /\ db_faults = FALSE
    /\ batch_size = 1
    /\ max_batches = NoLimit
    /\ queue = [NoQueue EXCEPT !.wk[WORKER].pc = "idle"]
    /\ page = NoPage /\ prun = NoPageRun
    /\ save = [NoSave EXCEPT !.pc = "next", !.idx = 1,
                             !.products = <<[title |-> "Blue Shirt", product_url |-> "https://s.io/p/1"]>>]
    /\ fetch = NoFetch
    /\ \E product \in PureCandidates :
         call = [NoCall EXCEPT !.op = "_is_valid_product", !.pc = "call", !.product = product]

NextPure ==
    \/ CallIsValidProduct
    \/ CallIsValidAgain
    \/ QReset(WORKER)
    \/ QSelect(WORKER)
    \/ QClaim(WORKER)
    \/ QOutcome(WORKER)
    \/ SaveNext
    \/ InsertAttempt

SpecPure == InitPure /\ [][NextPure]_vars

\* ---------------------------------------------------------- heavy_render
\* heavy_render called for one URL, with what crawler.arun can answer, and
\* the block of process_url that follows its return.

\* the URLs rendered and the values of HEAVY_EXPECTED_SELECTOR
RenderUrls == {"https://s.io/c", "https://shop.wixsite.com/c"}
Selectors == {None, ".product, .item", ".product,", " , "}
\* str(e) of the exceptions crawler.arun raises
ArunErrors ==
    {"Timeout 45000ms exceeded", "Page.goto: TIMEOUT", "Wait condition failed: css:.product",
     "net::ERR_NAME_NOT_RESOLVED", "Target closed"}

RECURSIVE SplitComma(_)
\* s.split(',')
SplitComma(s) ==
    IF ~Contains(s, ",") THEN <<s>>
    ELSE <<SubSeq(s, 1, IndexOf(s, ",") - 1)>> \o SplitComma(SubSeq(s, IndexOf(s, ",") + 1, Len(s)))

RECURSIVE JoinComma(_)
\* ', '.join(parts)
JoinComma(parts) ==
    IF Len(parts) = 1 THEN parts[1]
    ELSE parts[1] \o ", " \o JoinComma(Tail(parts))

\* parts = [s.strip() for s in expected_selector.split(',') if s.strip()]
SelectorParts(expected_selector) ==
    SelectSeq([k \in DOMAIN SplitComma(expected_selector) |-> Strip(SplitComma(expected_selector)[k])],
              LAMBDA part : part # "")

\* clean_selector: None unless the selector has a non-empty part
CleanSelector(expected_selector) ==
    IF expected_selector = None \/ expected_selector = "" THEN None
    ELSE IF SelectorParts(expected_selector) = <<>> THEN None
    ELSE JoinComma(SelectorParts(expected_selector))

\* js_scroll: the three scroll steps, and two events more for a Wix URL
JsScroll(url) ==
    <<"scroll-quarter", "scroll-half", "scroll-full">>
    \o (IF Contains(Lower(url), "wix") THEN <<"event-scroll", "event-resize">> ELSE <<>>)

\* run_conf, with the URL it is run on
RunConf(url, clean_selector) ==
    [url |-> url,
     wait_for |-> IF clean_selector = None THEN None ELSE "css:" \o clean_selector,
     js_code |-> JsScroll(url), wait_for_images |-> TRUE]

\* fallback_conf, with the URL it is run on
FallbackConf(url) ==
    [url |-> url, wait_for |-> None, js_code |-> JsScroll(url), wait_for_images |-> FALSE]

\* "timeout" in error_msg.lower() or "wait condition failed" in error_msg.lower()
IsSelectorTimeout(error_msg) ==
    Contains(Lower(error_msg), "timeout") \/ Contains(Lower(error_msg), "wait condition failed")

\* heavy_render returns (res, html, screenshot) for a result of crawler.arun
ReturnResult(r, success, len) ==
    [r EXCEPT !.res = IF success THEN "success" ELSE "unsuccessful", !.html_len = len]

\* heavy_render returns (None, "", None)
ReturnNone(r) == [r EXCEPT !.res = "None", !.html_len = 0]

\* the handler of the first crawler.arun retries on every exception
AfterPrimaryRaise_Always(r, error_msg) == [r EXCEPT !.raised = Append(@, error_msg)]

\* the handler of the first crawler.arun: the retry for a selector timeout,
\* else the empty result
AfterPrimaryRaise(r, error_msg) ==
    IF IsSelectorTimeout(error_msg) THEN [r EXCEPT !.raised = Append(@, error_msg)]
    ELSE ReturnNone([r EXCEPT !.raised = Append(@, error_msg)])

\* crawler.arun(url, config=run_conf) returns or raises
ArunPrimary ==
    /\ call.op = "heavy_render" /\ call.pc = "arun"
    /\ LET r == [call.render EXCEPT
                    !.runs = Append(@, RunConf(call.render.url,
                                               CleanSelector(call.render.expected_selector)))]
       IN \/ \E success \in BOOLEAN, len \in RenderLens :
               call' = [call EXCEPT !.pc = "returned", !.render = ReturnResult(r, success, len)]
          \/ \E error_msg \in ArunErrors :
               call' = [call EXCEPT
                   !.render = AfterPrimaryRaise(r, error_msg),
                   !.pc = IF AfterPrimaryRaise(r, error_msg).res = "none"
                          THEN "retry" ELSE "returned"]
    /\ UNCHANGED <<settings, store, now, batch, page, prun, queue, save, fetch>>

\* crawler.arun(url, config=fallback_conf) returns or raises
ArunFallback ==
    /\ call.op = "heavy_render" /\ call.pc = "retry"
    /\ LET r == [call.render EXCEPT !.runs = Append(@, FallbackConf(call.render.url))]
       IN \/ \E success \in BOOLEAN, len \in RenderLens :
               call' = [call EXCEPT !.pc = "returned", !.render = ReturnResult(r, success, len)]
          \/ \E error_msg \in ArunErrors :
               call' = [call EXCEPT
                   !.pc = "returned",
                   !.render = ReturnNone([r EXCEPT !.raised = Append(@, error_msg)])]
    /\ UNCHANGED <<settings, store, now, batch, page, prun, queue, save, fetch>>

\* process_url after heavy_render has returned: the heavy block for
\* `res and res.success and rendered_html and len(rendered_html) > 1500`,
\* else the failed block
AfterHeavyRender ==
    /\ call.op = "heavy_render" /\ call.pc = "returned"
    /\ call' = [call EXCEPT
           !.pc = "done",
           !.render.stage = IF call.render.res = "success" /\ call.render.html_len > MIN_RENDERED_LEN
                            THEN "heavy" ELSE "failed"]
    /\ UNCHANGED <<settings, store, now, batch, page, prun, queue, save, fetch>>

InitRender ==
    /\ InitWorker
    /\ GLOBAL_CONCURRENCY = 1 /\ netloc = OneSite /\ ~manifest_open
    /\ db_faults = FALSE
    /\ batch_size = BatchSize
    /\ max_batches = NoLimit
    /\ page = NoPage /\ prun = NoPageRun
    /\ queue = NoQueue
    /\ save = NoSave /\ fetch = NoFetch
    /\ \E url \in RenderUrls, expected_selector \in Selectors :
         call = [NoCall EXCEPT !.op = "heavy_render", !.pc = "arun",
                               !.render = [NoRender EXCEPT !.url = url,
                                                           !.expected_selector = expected_selector]]

NextRender ==
    \/ ArunPrimary
    \/ ArunFallback
    \/ AfterHeavyRender

SpecRender == InitRender /\ [][NextRender]_vars

\* ------------------------------------------- _extract_products_from_json
\* _extract_products_from_json called on JSON values that hold products at
\* a chosen depth below their root.

\* a Wix product, as an element of a "products" list
WixObject ==
    JDict(<<<<"id", JStr("w1")>>, <<"name", JStr("Wix Mug")>>, <<"slug", JStr("wix-mug")>>,
            <<"price", JNum("12")>>>>)

\* what lies at the bottom of the value: a product object, an array of three
\* product objects, a dict whose "products" list holds a Wix product
Leaf(leaf) ==
    CASE leaf = "object" -> ApiObject("1", FALSE, "none")
      [] leaf = "array" -> ApiArray(FALSE, "none")
      [] leaf = "wix" -> JDict(<<<<"products", JList(<<WixObject>>)>>>>)

\* one level around v: a list of one element, or a dict with the key "items"
WrapIn(v, kind) == IF kind = "list" THEN JList(<<v>>) ELSE JDict(<<<<"items", v>>>>)

RECURSIVE Nest(_, _, _)
\* v below n levels of lists, of dicts, or of both in turn
Nest(v, n, wrap) ==
    IF n = 0 THEN v
    ELSE Nest(WrapIn(v, IF wrap = "mixed" THEN (IF n % 2 = 0 THEN "list" ELSE "key") ELSE wrap),
              n - 1, wrap)

JsonShapes == [nest : 0..MaxNest, wrap : {"list", "key", "mixed"}, leaf : {"object", "array", "wix"}]

\* _extract_products_from_json(data, base_url, max_items) returns
CallExtractJson ==
    /\ call.op = "_extract_products_from_json" /\ call.pc = "call"
    /\ call' = [call EXCEPT
           !.pc = "returned",
           !.out = ExtractProductsFromJson(Nest(Leaf(call.shape.leaf), call.shape.nest,
                                                call.shape.wrap),
                                           BaseUrl, call.max_items, 0)]
    /\ UNCHANGED <<settings, store, now, batch, page, prun, queue, save, fetch>>

InitNest ==
    /\ InitWorker
    /\ GLOBAL_CONCURRENCY = 1 /\ netloc = OneSite /\ ~manifest_open
    /\ db_faults = FALSE
    /\ batch_size = BatchSize
    /\ max_batches = NoLimit
    /\ page = NoPage /\ prun = NoPageRun
    /\ queue = NoQueue
    /\ save = NoSave /\ fetch = NoFetch
    /\ \E shape \in JsonShapes, max_items \in {1, 2, MAX_PRODUCTS_PER_PAGE} :
         call = [NoCall EXCEPT !.op = "_extract_products_from_json", !.pc = "call",
                               !.shape = shape, !.max_items = max_items]

NextNest == CallExtractJson

SpecNest == InitNest /\ [][NextNest]_vars

\* ------------------------------------------ the records handed to the store
\* One round of the loop of save_products_to_supabase: the candidate, the
\* clamps and the sanitizers, and the record handed to the insert.

\* A float or an int of Python: None, nan, an infinity, or a number with its
\* sign, written as giga * 10^9 + rest + mill / 1000.
NoneValue == [k |-> "none", neg |-> FALSE, giga |-> 0, rest |-> 0, mill |-> 0]
NanValue == [k |-> "nan", neg |-> FALSE, giga |-> 0, rest |-> 0, mill |-> 0]
InfValue(neg) == [k |-> "inf", neg |-> neg, giga |-> 0, rest |-> 0, mill |-> 0]
NumValue(neg, giga, rest, mill) ==
    [k |-> "num", neg |-> neg, giga |-> giga, rest |-> rest, mill |-> mill]

\* x < 0; every comparison with nan is false
BelowZero(x) ==
    \/ x.k = "inf" /\ x.neg
    \/ x.k = "num" /\ x.neg /\ (x.giga > 0 \/ x.rest > 0 \/ x.mill > 0)

\* x > bound, for a bound that is a number above zero
Above(x, bound) ==
    \/ x.k = "inf" /\ ~x.neg
    \/ /\ x.k = "num" /\ ~x.neg
       /\ \/ x.giga > bound.giga
          \/ x.giga = bound.giga /\ x.rest > bound.rest
          \/ x.giga = bound.giga /\ x.rest = bound.rest /\ x.mill > bound.mill

\* round(x, 2) of a number whose third decimal is not 5; round(nan, 2) is nan
Round2(x) ==
    IF x.k # "num" THEN x
    ELSE LET m == ((x.mill + 5) \div 10) * 10
             r == IF m = 1000 THEN x.rest + 1 ELSE x.rest
         IN NumValue(x.neg,
                     IF r = 1000000000 THEN x.giga + 1 ELSE x.giga,
                     IF r = 1000000000 THEN 0 ELSE r,
                     IF m = 1000 THEN 0 ELSE m)

\* the largest values of the columns
RatingMax == NumValue(FALSE, 0, 100, 0)
PriceMax == NumValue(FALSE, 0, 999999999, 990)
Int32Max == NumValue(FALSE, 2, 147483647, 0)

\* the clamp of the rating
ClampRating(rating) ==
    IF rating.k = "none" THEN rating
    ELSE IF BelowZero(rating) THEN NumValue(FALSE, 0, 0, 0)
    ELSE IF Above(rating, RatingMax) THEN RatingMax
    ELSE Round2(rating)

\* the clamp of the price
ClampPrice(price) ==
    IF price.k = "none" THEN price
    ELSE IF BelowZero(price) THEN NoneValue
    ELSE IF Above(price, PriceMax) THEN PriceMax
    ELSE Round2(price)

\* int(float(reviews)): ValueError for nan, OverflowError for an infinity,
\* else the number cut at the decimal point
IntOfFloat(reviews) ==
    IF reviews.k # "num" THEN NoneValue ELSE [reviews EXCEPT !.mill = 0]

\* the clamp of the review count
ClampReviews(reviews) ==
    IF reviews.k = "none" THEN reviews
    ELSE IF IntOfFloat(reviews).k = "none" THEN NoneValue
    ELSE IF BelowZero(IntOfFloat(reviews)) THEN NoneValue
    ELSE IF Above(IntOfFloat(reviews), Int32Max) THEN NoneValue
    ELSE [IntOfFloat(reviews) EXCEPT !.neg = FALSE]

RECURSIVE Doubled(_, _)
\* s repeated 2^n times
Doubled(s, n) == IF n = 0 THEN s ELSE Doubled(s \o s, n - 1)

\* titles: none, empty, blank, short, with a line break, of 512 characters
RecordTitles == {None, "", " ", "AB", "Blue\nShirt", Doubled("a", 9)}
\* URLs: none, empty, blank, short, of 4103 characters
RecordUrls == {None, "", " ", "https://s.io/p/1", "https://s.io/p/" \o Doubled("a", 12)}
\* prices the extractors hand over: None, numbers of _parse_price, and the
\* floats of a Wix price (float() of the number or text the API sent:
\* negative, nan, an infinity)
RecordPrices ==
    {NoneValue, NumValue(FALSE, 0, 0, 0), NumValue(FALSE, 0, 19, 994),
     NumValue(FALSE, 0, 999999999, 990), NumValue(FALSE, 0, 999999999, 996),
     NumValue(FALSE, 5, 0, 0), NumValue(TRUE, 0, 5, 0), NumValue(TRUE, 0, 0, 1),
     NanValue, InfValue(FALSE), InfValue(TRUE)}
\* ratings of _parse_float and review counts of _parse_int
RecordRatings ==
    {NoneValue, NumValue(FALSE, 0, 0, 0), NumValue(FALSE, 0, 4, 500),
     NumValue(FALSE, 0, 99, 996), NumValue(FALSE, 0, 100, 1), NumValue(FALSE, 0, 250, 0)}
RecordReviews ==
    {NoneValue, NumValue(FALSE, 0, 0, 0), NumValue(FALSE, 0, 12, 0),
     NumValue(FALSE, 2, 147483647, 0), NumValue(FALSE, 2, 147483648, 0),
     NumValue(FALSE, 5, 0, 0)}

\* the candidates: every title with every URL, and every price with every
\* rating and review count
RecordCandidates ==
    {[title |-> t, product_url |-> u, price |-> NumValue(FALSE, 0, 10, 0),
      rating |-> NoneValue, review_count |-> NoneValue] : t \in RecordTitles, u \in RecordUrls}
    \cup {[title |-> "AB", product_url |-> "https://s.io/p/1", price |-> p,
           rating |-> r, review_count |-> v] :
             p \in RecordPrices, r \in RecordRatings, v \in RecordReviews}

\* db_data of one candidate, <<>> when the round ends at
\* `if not product_name or not product_url: continue`
DbData(product) ==
    IF SanitizeText(product.title, 500) = None \/ SanitizeUrl(product.product_url) = None
    THEN <<>>
    ELSE [product_name |-> SanitizeText(product.title, 500),
          product_url |-> SanitizeUrl(product.product_url),
          current_price |-> ClampPrice(product.price),
          rating |-> ClampRating(product.rating),
          reviews |-> ClampReviews(product.review_count)]

\* one round of the loop up to the call of _insert_product_with_retry
CallBuildRecord ==
    /\ call.op = "save_products_to_supabase" /\ call.pc = "call"
    /\ call' = [call EXCEPT
           !.pc = IF DbData(call.cand) = <<>> THEN "skipped" ELSE "insert",
           !.db_data = DbData(call.cand)]
    /\ UNCHANGED <<settings, store, now, batch, page, prun, queue, save, fetch>>

InitRecord ==
    /\ InitWorker
    /\ GLOBAL_CONCURRENCY = 1 /\ netloc = OneSite /\ ~manifest_open
    /\ db_faults = FALSE
    /\ batch_size = BatchSize
    /\ max_batches = NoLimit
    /\ page = NoPage /\ prun = NoPageRun
    /\ queue = NoQueue
    /\ save = NoSave /\ fetch = NoFetch
    /\ \E product \in RecordCandidates :
         call = [NoCall EXCEPT !.op = "save_products_to_supabase", !.pc = "call",
                               !.cand = product]

NextRecord == CallBuildRecord

SpecRecord == InitRecord /\ [][NextRecord]_vars

\* ------------------------------------------------- the batch under fairness
\* the steps of the process_url task of row i
TaskStep(i) ==
    \/ AcquireDomain(i) \/ AcquireGlobal(i)
    \/ FetchRaise(i) \/ FetchReturn(i)
    \/ ApiNothing(i) \/ ApiJson(i)
    \/ AcquireHeavy(i)
    \/ RenderResult(i) \/ RenderTimeout(i) \/ RenderError(i)
    \/ RenderStartRaise(i) \/ RenderFallback(i)

\* the steps of main_from_db
MainStep == MainLoop \/ GatherReturn \/ GatherRaise \/ SleepDone

\* The event loop runs every task that can run: a task whose awaited call
\* has an answer, or whose semaphore has a free permit, is resumed (each
\* task asks each gate once, so a permit that is free stays free until one
\* of the finitely many waiting tasks takes it); every network, render and
\* store call returns or raises; main_from_db is resumed when gather or
\* sleep is over.
SpecLive ==
    /\ Init
    /\ [][Next]_vars
    /\ \A i \in Items : WF_vars(TaskStep(i))
    /\ WF_vars(MainStep)

\* ------------------------------------------ the manifest on a failing disk
\* fetch_json_api returns a truthy JSON value, n products are extracted and
\* k of them saved, and then manifest_fh.write or manifest_fh.flush raises
\* OSError inside the `try` of the candidate loop (`except Exception:
\* continue`): no write-back is made, the loop goes on to the next candidate
\* or to heavy_render, and the locals products_found and products_saved
\* keep what this candidate gave them
ApiJsonRaise(i) ==
    /\ pipe[i].pc = "api"
    /\ manifest_open
    /\ \E n \in 0..MaxProducts :
         \E k \in 0..n :
            pipe' = [pipe EXCEPT ![i] =
                       NextCandidate([@ EXCEPT !.found = n, !.saved = SavedAfter(pipe[i], n, k)])]
    /\ UNCHANGED <<config, store, now, wpc, batch_num, last, twin,
                   global_sem, heavy_sem, domain_locks>>

\* the worker with a manifest file whose writes can fail in the candidate
\* loop
NextManifestFaults ==
    \/ Next
    \/ \E i \in Items : ApiJsonRaise(i)

SpecManifestFaults == Init /\ [][NextManifestFaults]_vars

\* ------------------------------------------------------ restart_wrapper.py
\* RESTART_INTERVAL_SECONDS = 20 * 60
RESTART_INTERVAL_SECONDS == 1200
\* time.sleep(5) in the monitoring loop
POLL_SECONDS == 5

\* the children that have not exited
Alive(w) == {c \in 1..MaxCycles : w.child[c] = "running"}
\* PROCESS.poll() is None
PollIsNone(w) == w.PROCESS # 0 /\ w.child[w.PROCESS] = "running"
\* the number of the child the next Popen returns
NextChild(w) == Cardinality({c \in 1..MaxCycles : w.child[c] # "none"}) + 1

WrapperStep(w) ==
    /\ call.op = "restart_wrapper.main"
    /\ call' = [call EXCEPT !.wrapper = w]
    /\ UNCHANGED <<settings, store, now, batch, page, prun, queue, save, fetch>>

\* top of `while True`: subprocess.Popen starts the child, elapsed = 0
PopenReturn ==
    /\ call.wrapper.pc = "top" /\ call.wrapper.cycle <= MaxCycles
    /\ LET w == call.wrapper
           c == NextChild(w)
       IN WrapperStep([w EXCEPT !.PROCESS = c, !.child[c] = "running",
                                !.elapsed = 0, !.pc = "monitor"])

\* subprocess.Popen raises (the command is missing, fork fails): PROCESS
\* keeps the child of the cycle before, `except Exception` is entered
PopenRaise ==
    /\ call.wrapper.pc = "top" /\ call.wrapper.cycle <= MaxCycles
    /\ WrapperStep([call.wrapper EXCEPT !.pc = "pause10"])

\* monitoring loop, PROCESS.poll() is not None: `break`; the test after the
\* loop finds the child gone, the cycle is completed
MonitorExited ==
    /\ call.wrapper.pc = "monitor"
    /\ ~PollIsNone(call.wrapper)
    /\ WrapperStep([call.wrapper EXCEPT !.pc = "pause5", !.stop = "early"])

\* monitoring loop, the child runs: time.sleep(5); elapsed = time.time() -
\* start_time; the loop is left when elapsed has reached the interval
MonitorSleep ==
    /\ call.wrapper.pc = "monitor"
    /\ PollIsNone(call.wrapper)
    /\ LET e == call.wrapper.elapsed + POLL_SECONDS IN
       WrapperStep([call.wrapper EXCEPT
           !.elapsed = e,
           !.pc = IF e < RESTART_INTERVAL_SECONDS THEN "monitor" ELSE "limit"])

\* after the loop the child has exited during the last sleep: nothing to
\* terminate
LimitExited ==
    /\ call.wrapper.pc = "limit"
    /\ ~PollIsNone(call.wrapper)
    /\ WrapperStep([call.wrapper EXCEPT !.pc = "pause5", !.stop = "early"])

\* PROCESS.terminate(); PROCESS.wait(timeout=30) returns
TerminateGraceful ==
    /\ call.wrapper.pc = "limit"
    /\ PollIsNone(call.wrapper)
    /\ LET w == call.wrapper IN
       WrapperStep([w EXCEPT !.child[w.PROCESS] = "exited",
                             !.pc = "pause5", !.stop = "graceful"])

\* PROCESS.terminate(); PROCESS.wait(timeout=30) raises TimeoutExpired;
\* PROCESS.kill(); PROCESS.wait()
TerminateKill ==
    /\ call.wrapper.pc = "limit"
    /\ PollIsNone(call.wrapper)
    /\ LET w == call.wrapper IN
       WrapperStep([w EXCEPT !.child[w.PROCESS] = "exited",
                             !.pc = "pause5", !.stop = "killed"])

\* PROCESS.terminate() raises (os.kill answers PermissionError): the child
\* runs on, `except Exception` is entered
TerminateRaise ==
    /\ call.wrapper.pc = "limit"
    /\ PollIsNone(call.wrapper)
    /\ WrapperStep([call.wrapper EXCEPT !.pc = "pause10", !.stop = "error"])

\* time.sleep(5); cycle += 1
Pause5Done ==
    /\ call.wrapper.pc = "pause5"
    /\ WrapperStep([call.wrapper EXCEPT !.pc = "top", !.cycle = @ + 1])

\* except Exception: time.sleep(10); cycle += 1
Pause10Done ==
    /\ call.wrapper.pc = "pause10"
    /\ WrapperStep([call.wrapper EXCEPT !.pc = "top", !.cycle = @ + 1])

\* a child that runs exits on its own
ChildExit ==
    /\ call.wrapper.pc # "exit"
    /\ \E c \in Alive(call.wrapper) :
         WrapperStep([call.wrapper EXCEPT !.child[c] = "exited"])

\* signal_handler (SIGTERM, SIGINT): the child held by PROCESS is
\* terminated, and killed when it does not go within 10 seconds;
\* sys.exit(0)
SignalHandler ==
    /\ call.wrapper.pc \notin {"none", "exit"}
    /\ LET w == call.wrapper IN
       WrapperStep([w EXCEPT
           !.child = IF PollIsNone(w) THEN [@ EXCEPT ![w.PROCESS] = "exited"] ELSE @,
           !.pc = "exit"])

InitWrapper ==
    /\ InitWorker
    /\ GLOBAL_CONCURRENCY = 1 /\ netloc = OneSite /\ ~manifest_open
    /\ db_faults = FALSE
    /\ batch_size = BatchSize
    /\ max_batches = NoLimit
    /\ page = NoPage /\ prun = NoPageRun
    /\ queue = NoQueue
    /\ save = NoSave /\ fetch = NoFetch
    /\ call = [NoCall EXCEPT !.op = "restart_wrapper.main", !.wrapper.pc = "top"]

NextWrapper ==
    \/ PopenReturn \/ PopenRaise
    \/ MonitorExited \/ MonitorSleep
    \/ LimitExited \/ TerminateGraceful \/ TerminateKill \/ TerminateRaise
    \/ Pause5Done \/ Pause10Done
    \/ ChildExit
    \/ SignalHandler

SpecWrapper == InitWrapper /\ [][NextWrapper]_vars


\* ================================================================ claims

\* number of tasks of domain d holding a permit of d's gate
DomainHolders(d) == Cardinality({i \in Items : HoldsDomain(pipe[i]) /\ DomainOf(i) = d})
GlobalHolders == Cardinality({i \in Items : HoldsGlobal(pipe[i])})
HeavyHolders == Cardinality({i \in Items : HoldsHeavy(pipe[i])})
AllDomains == {IF netloc[i] = "" THEN "unknown" ELSE netloc[i] : i \in Items}

\* C1: one bad URL never aborts a batch: an exception raised by a step of
\* process_url is caught inside process_url, so no task ends by raising, no
\* other task of the batch is cut short, and main_from_db is not left by
\* the exception.
C1_NoAbort ==
    /\ wpc # "aborted"
    /\ \A i \in Items : pipe[i].pc \notin {"raised", "cancelled"}

\* C2: a run that reaches the exception terminal state calls
\* update_url_processing_result once for its row with success=false, the
\* accumulated counts and a message of at most 500 characters, with or
\* without a manifest handle.
C2_ExceptionWriteBack ==
    last.stage = "exception" =>
        /\ last.wb = 1
        /\ ~last.ok
        /\ last.err <= ERR_LIMIT

\* C3: for the same responses, the run with manifest_fh=None and the run
\* with an open manifest reach the same tier, success flag and counts and
\* make the same write-back.
C3_ManifestIrrelevant ==
    /\ last.stage = twin.stage
    /\ last.ok = twin.ok
    /\ last.found = twin.found
    /\ last.saved = twin.saved
    /\ last.err = twin.err
    /\ last.wb = twin.wb

\* C4: at most GLOBAL_CONCURRENCY pipelines are inside the global gate, and
\* the permits missing from global_sem are exactly theirs.
C4_GlobalBound ==
    /\ GlobalHolders <= GLOBAL_CONCURRENCY
    /\ global_sem = GLOBAL_CONCURRENCY - GlobalHolders

\* C4 witness: the global gate is exhausted and a further pipeline waits for it.
C4_Witness ==
    /\ GlobalHolders = GLOBAL_CONCURRENCY
    /\ \E i \in Items : pipe[i].pc = "wait_global"

\* C5: for each network location at most PER_DOMAIN_LIMIT pipelines hold its
\* gate; the gate exists once a URL of the location has asked for it, and
\* that one gate accounts for every holder of the location.
C5_DomainBound ==
    \A d \in AllDomains \cup DOMAIN domain_locks :
        /\ DomainHolders(d) <= PER_DOMAIN_LIMIT
        /\ DomainHolders(d) > 0 => d \in DOMAIN domain_locks
        /\ d \in DOMAIN domain_locks => domain_locks[d] = PER_DOMAIN_LIMIT - DomainHolders(d)

\* C5 witness: a location's gate is exhausted and a further URL of that
\* location waits for it.
C5_Witness ==
    \E i \in Items :
        /\ pipe[i].pc = "wait_domain"
        /\ DomainOf(i) \in DOMAIN domain_locks
        /\ DomainHolders(DomainOf(i)) = PER_DOMAIN_LIMIT

\* C6: at most HEAVY_CONCURRENCY renders are in progress and the permits
\* missing from heavy_sem belong to the pipelines inside heavy_render
\* (primary or fallback attempt): a pipeline in static fetch, API
\* discovery or past its terminal block holds none.
C6_HeavyBound ==
    /\ HeavyHolders <= HEAVY_CONCURRENCY
    /\ heavy_sem = HEAVY_CONCURRENCY - HeavyHolders
    /\ \A i \in Items : HoldsHeavy(pipe[i]) => pipe[i].heavy

\* C6 witness: a render is in its fallback attempt, the heavy gate is
\* exhausted and another pipeline waits for it.
C6_Witness ==
    /\ heavy_sem = 0
    /\ \E i \in Items : pipe[i].pc = "render2"
    /\ \E i \in Items : pipe[i].pc = "wait_heavy"

\* C7 (as stated): no pipeline holds a per-domain permit while it is still
\* waiting for the global gate: the permits taken from a domain's gate all
\* belong to pipelines that are inside the global gate.
C7_GlobalBeforeDomain ==
    \A i \in Items :
        pipe[i].pc = "wait_global" =>
            DomainValue(DomainOf(i))
              + Cardinality({j \in Items : HoldsGlobal(pipe[j]) /\ DomainOf(j) = DomainOf(i)})
              = PER_DOMAIN_LIMIT

\* C7 (amended): the gates are acquired in the order per-domain gate, global
\* gate, heavy gate: a pipeline waiting for its domain gate holds no global
\* permit, a pipeline waiting for the global gate holds its domain permit
\* and no heavy permit, and a pipeline inside the heavy gate is inside the
\* other two.
C7_DomainBeforeGlobal ==
    /\ GLOBAL_CONCURRENCY - global_sem
         = Cardinality({i \in Items : pipe[i].pc \notin {"none", "wait_domain", "wait_global"}
                                      /\ ~Terminal(pipe[i])})
    /\ \A i \in Items :
         pipe[i].pc = "wait_global" =>
            PER_DOMAIN_LIMIT - DomainValue(DomainOf(i))
              > Cardinality({j \in Items : HoldsGlobal(pipe[j]) /\ DomainOf(j) = DomainOf(i)})
    /\ HEAVY_CONCURRENCY - heavy_sem
         = Cardinality({i \in Items : pipe[i].pc \in {"render1", "render2"}})

\* C7 witness: a pipeline holds its domain permit and waits for the
\* exhausted global gate.
C7_Witness ==
    \E i \in Items :
        /\ pipe[i].pc = "wait_global"
        /\ global_sem = 0
        /\ DomainValue(DomainOf(i)) < PER_DOMAIN_LIMIT

\* C8: cheapest first: a candidate is fetched only after the static fetch
\* returned and no structured data was found; heavy_render is called only
\* when no candidate is left untried; a run that ended in fast-json fetched
\* no candidate and a run that ended in fast-json or fast-api called no
\* render.
C8_CheapestFirst ==
    /\ \A i \in Items :
         /\ (pipe[i].pc = "api" \/ pipe[i].tried) => pipe[i].sd = "no"
         /\ pipe[i].pc = "api" => pipe[i].left > 0 /\ ~pipe[i].heavy
         /\ pipe[i].heavy => pipe[i].left = 0 /\ pipe[i].sd = "no"
         /\ pipe[i].pc \in {"wait_heavy", "render1", "render2"} => pipe[i].heavy
    /\ last.stage = "fast-json" => last.sd = "yes" /\ ~last.heavy
    /\ last.stage = "fast-api" => last.sd = "no" /\ ~last.heavy
    /\ last.stage \in {"heavy", "failed"} => last.sd = "no" /\ last.heavy

\* C8 witness: a render is running after the candidates were tried without
\* result, and the run that ended last stopped in fast-api.
C8_Witness ==
    /\ \E i \in Items : pipe[i].pc = "render1" /\ pipe[i].tried
    /\ last.stage = "fast-api"

\* C9: a run ends in tier fast-json only with products_found > 0.
C9_FastJsonOnlyOnSuccess == last.stage = "fast-json" => last.found > 0

\* C10: a run ends in tier fast-api only when a candidate yielded at least
\* one product.
C10_FastApiOnlyOnProducts == last.stage = "fast-api" => last.found > 0

C12_HeavyOnlyOnSuccess ==
    last.heavy =>
        /\ last.stage \in {"heavy", "failed"}
        /\ last.stage = "heavy" <=> (last.ok /\ last.found > 0)
        /\ last.stage = "failed" => ~last.ok

\* C13: when heavy_render returns no result, an unsuccessful result or a
\* document of at most 1500 characters, nothing is extracted from it and
\* nothing is saved: the run ends in tier failed and the row is written
\* back as failed with success=false, products_found=0, products_saved=0.
C13_ShortRenderFails ==
    [][\A i \in Items :
         (/\ pipe[i].heavy /\ pipe'[i].pc = "done"
          /\ last'.stage # "exception"
          /\ ~(last'.rok /\ last'.rlen > MIN_RENDERED_LEN)) =>
            /\ last'.stage = "failed" /\ ~last'.ok
            /\ last'.found = 0 /\ last'.saved = 0
            /\ last'.wb = 1
            /\ store'[i].processing_status = "failed"
            /\ store'[i].success = "false"
            /\ store'[i].products_found = 0
            /\ store'[i].products_saved = 0
            /\ store'[i].error_len = NO_CONTENT_LEN]_vars

\* C13 witness: a successful render of exactly 1500 characters ended in
\* tier failed.
C13_Witness ==
    /\ last.stage = "failed"
    /\ last.rok /\ last.rlen = MIN_RENDERED_LEN

\* the page whose only structured data is the block
\* {"@type": "Product", "name": "Blue Shirt", "url": "/p/blue-shirt", "price": "19.99"},
\* with the price written as the key "price" or inside "offers"
IsShirtPage ==
    /\ page.db = "up"
    /\ page.ld \in {<<ShirtBlock(TRUE, "/p/blue-shirt", priceAt)>> : priceAt \in {"price", "offers"}}

\* C14: a page whose static HTML holds one structured-data block describing
\* a product named "Blue Shirt" with URL "/p/blue-shirt" and price "19.99"
\* ends at stage fast-json with one product found and one saved, the saved
\* product carries the price 19.99, and neither an API candidate is fetched
\* nor the page rendered.
C14_OneBlockOneProduct ==
    (prun.pc = "done" /\ IsShirtPage) =>
        /\ prun.stage = "fast-json" /\ prun.ok
        /\ prun.found = 1 /\ prun.saved = 1
        /\ prun.products[1].title = "Blue Shirt"
        /\ prun.products[1].price = 1999
        /\ prun.fetched = 0 /\ prun.renders = 0

\* the page without structured data whose first API candidate answers with
\* a JSON array of three distinct product objects
IsArrayPage ==
    /\ page.db = "up"
    /\ page.ld = <<>>
    /\ page.api \in {<<ApiArray(typed, idKind)>> : typed \in BOOLEAN, idKind \in {"none", "str", "num"}}

\* C15: a page without structured data whose first API candidate returns a
\* JSON array of three product objects ends at stage fast-api with three
\* products found and saved, and is never rendered.
C15_ThreeProducts ==
    (prun.pc = "done" /\ IsArrayPage) =>
        /\ prun.stage = "fast-api" /\ prun.ok
        /\ prun.found = 3 /\ prun.saved = 3
        /\ prun.fetched = 1 /\ prun.renders = 0

\* C16: every run of process_url for a row calls
\* update_url_processing_result exactly once, whatever its terminal state
\* (fast-json, fast-api, heavy, failed or exception).
C16_WriteBackOnce == last.stage # "none" => last.wb = 1

\* ------------------------------------------------------------------- C17
\* the step in which worker w's stale-reset update is applied
ResetStep(w) ==
    /\ queue.wk[w].pc = "idle"
    /\ queue'.wk[w].pc = "select"
    /\ queue'.wk[w].reset = "ok"

\* C17: the reset at the start of a claim cycle turns every row that is
\* processing and was claimed more than 30 minutes ago into a pending row
\* with claimed_by and claimed_at cleared, and leaves every row claimed less
\* than 30 minutes ago and every row that is not processing as it was.
C17_StaleReset ==
    [][\A w \in Workers : ResetStep(w) =>
          \A i \in Items :
             /\ (store[i].processing_status = "processing"
                   /\ now - store[i].claimed_at > STUCK_MINUTES)
                => store'[i] = [store[i] EXCEPT !.processing_status = "pending",
                                                !.claimed_by = NoWorker,
                                                !.claimed_at = NullTime]
             /\ (store[i].processing_status # "processing"
                   \/ now - store[i].claimed_at < STUCK_MINUTES)
                => store'[i] = store[i]]_vars

\* a reset has just been applied: a row its worker marked and still runs is
\* pending again, and a row claimed less than 30 minutes ago is still
\* processing
C17_Witness ==
    \E w \in Workers, v \in Workers, i \in Items, j \in Items :
       /\ w # v
       /\ queue.wk[w].pc = "select" /\ queue.wk[w].reset = "ok"
       /\ i \in queue.wk[v].urls \ queue.wk[v].todo
       /\ store[i].processing_status = "pending"
       /\ store[i].claimed_by = NoWorker /\ store[i].claimed_at = NullTime
       /\ store[j].processing_status = "processing"
       /\ store[j].claimed_at # NullTime
       /\ now - store[j].claimed_at < STUCK_MINUTES

\* ------------------------------------------------------------------- C18
\* the transitions of processing_status the lifecycle allows
Lifecycle ==
    {<<"pending", "processing">>, <<"processing", "completed">>,
     <<"processing", "failed">>, <<"processing", "pending">>}

\* C18: under any interleaving of the workers' claim cycles and outcome
\* write-backs the processing_status of a row changes only from pending to
\* processing, from processing to completed or failed, and from processing
\* to pending; a completed or failed row never returns to processing or
\* pending.
C18_Lifecycle ==
    [][\A i \in Items :
          store'[i].processing_status # store[i].processing_status
          => <<store[i].processing_status, store'[i].processing_status>> \in Lifecycle]_vars

\* ------------------------------------------------------------------- C19
\* C19: the claim is not exclusive.  A row that two workers selected before
\* either marked it, and a row selected again after a stale reset while its
\* first worker still runs it, is returned to both, run by both and written
\* by both; the stored row then carries the outcome of the later write.
C19_LastWriteWins ==
    \A i \in Items :
       /\ queue.kind[i] \in {"race-ok", "stale-ok"}
          => /\ store[i].processing_status = "completed"
             /\ store[i].success = "true"
       /\ queue.kind[i] \in {"race-failed", "stale-failed"}
          => /\ store[i].processing_status = "failed"
             /\ store[i].success = "false"

\* both workers have written an outcome for a row they raced for, and for
\* a row one of them selected after a stale reset
C19_Witness ==
    \E i \in Items, j \in Items :
       /\ queue.kind[i] \in {"race-ok", "race-failed"}
       /\ queue.kind[j] \in {"stale-ok", "stale-failed"}

\* ------------------------------------------------------------------- C20
\* one step of worker w inside fetch_pending_urls_from_db
FetchStep(w) ==
    /\ queue.wk[w].pc \in {"idle", "select", "claim"}
    /\ queue'.wk[w] # queue.wk[w]

\* C20: fetch_pending_urls_from_db never raises and returns at most `limit`
\* rows, each pending when it was selected.  The select follows the stale
\* reset whether or not the reset failed; each round of the claim loop,
\* failed or not, keeps the selected rows and goes on to the next row, and
\* after the last round the selected rows are returned.
C20_FetchNeverRaises ==
    [][\A w \in Workers : FetchStep(w) =>
          LET c == queue.wk[w]
              d == queue'.wk[w]
          IN /\ c.pc = "idle" => d.pc = "select"
             /\ c.pc = "select"
                => /\ d.pc \in {"claim", "stopped"}
                   /\ d.urls \subseteq PendingIds(store)
                   /\ Cardinality(d.urls) <= batch_size
                   /\ d.pc = "stopped" <=> d.urls = {}
             /\ c.pc = "claim"
                => /\ d.urls = c.urls
                   /\ d.todo = c.todo \ {NextId(c.todo)}
                   /\ d.pc = IF d.todo = {} THEN "run" ELSE "claim"]_vars

\* the rows are returned after a failed reset and a failed claim update of
\* the first of them: that row is still pending, the next one was claimed
C20_Witness ==
    \E i \in Items, j \in Items :
       /\ i < j
       /\ queue.wk[WORKER].pc = "run"
       /\ queue.wk[WORKER].reset = "failed"
       /\ {i, j} \subseteq queue.wk[WORKER].urls
       /\ i \in queue.wk[WORKER].cfail
       /\ j \notin queue.wk[WORKER].cfail
       /\ store[i].processing_status = "pending"
       /\ store[j].processing_status = "processing"
       /\ store[j].claimed_by = WORKER

\* ------------------------------------------------------------------- C21
\* the row update_url_processing_result writes for the run that ended last
WrittenRow(row) ==
    /\ row.processing_status = IF last'.ok THEN "completed" ELSE "failed"
    /\ row.success = IF last'.ok THEN "true" ELSE "false"
    /\ row.products_found = last'.found
    /\ row.products_saved = last'.saved
    /\ row.error_len <= ERR_LIMIT
    /\ last'.err > 0 => row.error_len = last'.err

\* C21: the write-back at the end of a pipeline is called once; it sets the
\* status to completed when success is true and to failed otherwise, with
\* the found and saved counts and an error message of at most 500
\* characters.  A failing write is swallowed: the row stays as it was, the
\* pipeline returns its result all the same, and no other row is touched.
C21_WriteBack ==
    [][\A i \in Items :
          (pipe[i].pc \notin {"none", "done"} /\ pipe'[i].pc = "done")
          => /\ last'.wb = 1
             /\ \/ WrittenRow(store'[i])
                \/ db_faults /\ store'[i] = store[i]
             /\ \A j \in Items \ {i} : store'[j] = store[j]]_vars

\* a pipeline has returned a successful result and its write-back failed:
\* the row is not completed
C21_Witness ==
    \E i \in Items :
       /\ pipe[i].pc = "done"
       /\ last.ok /\ last.wb = 1 /\ last.found > 0
       /\ store[i].processing_status \in {"pending", "processing"}

\* ------------------------------------------------------------------- C22
\* C22: for every max_batches value main_from_db is started with, 0
\* included, the number of batches claimed and processed never exceeds
\* max_batches, and no claim cycle is run once the limit is reached.
C22_BatchLimit ==
    max_batches # NoLimit => batch_num <= max_batches

\* ------------------------------------------------------------------- C23
\* the step in which main_from_db calls fetch_pending_urls_from_db
ClaimCycle ==
    /\ wpc = "loop"
    /\ ~LimitReached
    /\ wpc' \in {"gather", "finished"}

\* C23: within one worker the claim cycle for the next batch starts only
\* after every pipeline of the current batch has returned; the pipelines of
\* a batch may end in any order.  No process_url task is in flight when
\* fetch_pending_urls_from_db is called or while the worker sleeps between
\* two batches.
C23_BatchBarrier ==
    [][/\ ClaimCycle => \A i \in Items : pipe[i].pc = "none"
       /\ wpc' \in {"sleep", "loop"} => \A i \in Items : pipe'[i].pc = "none"]_vars

\* the second batch is in flight, the row of the first batch has its outcome
C23_Witness ==
    /\ batch_num = 2
    /\ wpc = "gather"
    /\ \E i \in Items : pipe[i].pc \notin {"none", "done"}
    /\ \E j \in Items : /\ pipe[j].pc = "none"
                        /\ store[j].processing_status \in {"completed", "failed"}

\* ------------------------------------------------------------------- C24
\* the classes of transient and server-side failures
Transient == {"server", "network"}

\* C24: an insert is attempted at most 3 times per record.  It is attempted
\* again only after a transient or server-class error; a record whose last
\* attempt failed that way has had 3 attempts and is counted as not saved;
\* a record whose insert returned the row is counted as saved; and
\* save_products_to_supabase goes through every record and returns, the two
\* counters adding up to the records it is done with.
C24_InsertRetried ==
    /\ save.attempt < INSERT_ATTEMPTS
    /\ save.attempt > 0 => save.pc = "insert" /\ save.answer.class \in Transient
    /\ save.pc \in {"next", "insert", "returned"}
       => save.saved_count + save.failed_count = save.idx - 1
    /\ save.pc = "returned" => save.idx = Len(save.products) + 1
    /\ save.done.attempts <= INSERT_ATTEMPTS
    /\ save.done.answer.class \in Transient
       => save.done.attempts = INSERT_ATTEMPTS /\ save.done.counted = "failed"
    /\ save.done.answer.kind = "row" => save.done.counted = "saved"

\* the first record failed three times with a server or network error and
\* is counted as failed; the insert of the next record has been attempted
C24_Witness ==
    /\ save.pc = "insert"
    /\ save.idx = 2
    /\ save.attempt = 1
    /\ save.failed_count = 1
    /\ save.done.attempts = INSERT_ATTEMPTS
    /\ save.done.answer.class \in Transient
    /\ save.done.counted = "failed"

\* ------------------------------------------------------------------- C25
\* C25: an insert that fails with a duplicate or unique-constraint error is
\* counted as saved, one that fails with a check-constraint or
\* invalid-input error is counted as not saved, and neither is attempted
\* again.
C25_PermanentErrors ==
    /\ save.attempt > 0 => save.answer.class \notin {"unique", "check", "invalid"}
    /\ save.done.answer.class = "unique" => save.done.counted = "saved"
    /\ save.done.answer.class \in {"check", "invalid"} => save.done.counted = "failed"

\* ------------------------------------------------------------------- C26
\* C26: an API fetch that fails with a transient network or server-class
\* error is retried, up to 3 attempts in total for the candidate URL,
\* before the candidate is given up.
C26_ApiRetried ==
    (fetch.pc = "returned" /\ fetch.result = "null" /\ fetch.failure \in {"server", "network"})
    => fetch.attempts = API_RETRY_ATTEMPTS

\* ------------------------------------------------------------------- C27
\* _is_valid_product has returned for the candidate in hand
ValidReturned == call.op = "_is_valid_product" /\ call.pc = "returned"

\* C27: price and title override the path-shape test: a candidate with a
\* URL that is present and not blacklisted, a non-empty title and a price
\* that is not null is valid whatever the shape of its path, {url: "/x",
\* title: "A", price: 10} and a candidate with price 0 included.
C27_PriceTitleOverride ==
    (/\ ValidReturned
     /\ call.product.product_url \notin {None, ""}
     /\ ~IsBlacklistedLink(call.product.product_url)
     /\ CleanText(call.product.title) # None
     /\ call.product.price # NoNumber)
    => call.valid

\* ------------------------------------------------------------------- C28
\* C28: _is_valid_product rejects, whatever the other fields are, a
\* candidate without URL, one whose URL holds a blacklisted keyword or
\* starts with javascript:, mailto: or tel:, one whose cleaned title has a
\* single character, and one with neither title nor price, also when the
\* path of the URL has product shape.
C28_Rejected ==
    (/\ ValidReturned
     /\ \/ call.product.product_url \in {None, ""}
        \/ IsBlacklistedLink(call.product.product_url)
        \/ /\ CleanText(call.product.title) # None
           /\ Len(CleanText(call.product.title)) < 2
        \/ /\ CleanText(call.product.title) = None
           /\ call.product.price = NoNumber)
    => ~call.valid

\* a candidate with a price, a title and a product-shaped path that holds a
\* blacklisted keyword has been rejected
C28_Witness ==
    /\ ValidReturned
    /\ call.product = [title |-> "Login", product_url |-> "/products/Login", price |-> 1000]
    /\ IsProductLikePath(call.product.product_url)
    /\ ~call.valid

\* ------------------------------------------------------------------- C29
\* _dedupe_products has returned for the list in hand
DedupeReturned == call.op = "_dedupe_products" /\ call.pc \in {"returned", "twice"}

\* the dedup key as written: product_url if present and non-empty, else the
\* whitespace-normalized title
RawUrlKey(p) ==
    IF p.product_url \notin {None, ""} THEN p.product_url
    ELSE IF CleanText(p.title) = None THEN "" ELSE CleanText(p.title)

\* the dedup key with the URL stripped of surrounding whitespace, the title
\* taking over when nothing is left of the URL
StrippedUrlKey(p) ==
    IF p.product_url # None /\ Strip(p.product_url) # "" THEN Strip(p.product_url)
    ELSE IF CleanText(p.title) = None THEN "" ELSE CleanText(p.title)

\* the positions of products that hold the first occurrence of a non-empty
\* key
FirstOccurrences(products, keys) ==
    {i \in DOMAIN products :
        keys[i] # "" /\ \A j \in 1..(i - 1) : keys[j] # keys[i]}

\* out is a subsequence of products in encounter order that holds the first
\* occurrence of every non-empty key and no two candidates with one key
OnePerKey(products, out, keys, outkeys) ==
    /\ \E f \in [DOMAIN out -> DOMAIN products] :
          /\ \A k \in DOMAIN out : out[k] = products[f[k]]
          /\ \A k, l \in DOMAIN out : k < l => f[k] < f[l]
          /\ FirstOccurrences(products, keys) \subseteq {f[k] : k \in DOMAIN out}
    /\ \A k, l \in DOMAIN out : k # l => outkeys[k] # outkeys[l]

\* C29 as stated: with the key product_url if non-empty, else the
\* normalized title, the output of _dedupe_products is a subsequence of its
\* input in encounter order that holds the first occurrence of every
\* non-empty key and no second candidate with the same key.
C29_OnePerRawKey ==
    DedupeReturned =>
        OnePerKey(call.products, call.out,
                  [i \in DOMAIN call.products |-> RawUrlKey(call.products[i])],
                  [k \in DOMAIN call.out |-> RawUrlKey(call.out[k])])

\* C29 amended: with the key product_url stripped of surrounding whitespace
\* if that is non-empty, else the normalized title, the output of
\* _dedupe_products is a subsequence of its input in encounter order that
\* holds the first occurrence of every non-empty key and no second
\* candidate with the same key.
C29_OnePerStrippedKey ==
    DedupeReturned =>
        OnePerKey(call.products, call.out,
                  [i \in DOMAIN call.products |-> StrippedUrlKey(call.products[i])],
                  [k \in DOMAIN call.out |-> StrippedUrlKey(call.out[k])])

\* a list of three candidates has come back with its second candidate
\* dropped for the key of the first and its third kept
C29_Witness ==
    /\ call.op = "_dedupe_products" /\ call.pc = "returned"
    /\ Len(call.products) = 3
    /\ StrippedUrlKey(call.products[2]) = StrippedUrlKey(call.products[1])
    /\ call.products[2] # call.products[1]
    /\ StrippedUrlKey(call.products[3]) \notin {"", StrippedUrlKey(call.products[1])}
    /\ call.out = <<call.products[1], call.products[3]>>

\* ------------------------------------------------------------------- C30
\* C30: dedup is idempotent: _dedupe_products applied to its own result
\* returns that result.
C30_Idempotent ==
    (call.op = "_dedupe_products" /\ call.pc = "twice") => call.again = call.out

\* the second call has returned for a list of which the first call dropped
\* a candidate and kept two
C30_Witness ==
    /\ call.op = "_dedupe_products" /\ call.pc = "twice"
    /\ Len(call.out) = 2
    /\ Len(call.products) = 3
    /\ call.again = call.out

\* ------------------------------------------------------------------- C31
\* _parse_price has returned for the text in hand
PriceReturned == call.op = "_parse_price" /\ call.pc = "returned"

\* the text in hand carries one of the markers of the currency
CarriesMarker(markers) ==
    /\ call.raw \notin {None, ""}
    /\ \E m \in markers : Contains(Lower(call.raw), m)

\* C31: _parse_price resolves the currency by the priority INR, USD, EUR,
\* GBP: a text with markers of several currencies gets the earliest of
\* them in that order, a text without marker gets none; "₹1,299.00" gives
\* (1299.00, INR), "$19.99" gives (19.99, USD), "Free" gives (None, None).
C31_CurrencyPriority ==
    PriceReturned =>
        /\ call.parsed.currency =
              IF CarriesMarker({"₹", "rs", "rs.", "inr"}) THEN "INR"
              ELSE IF CarriesMarker({"$", "usd"}) THEN "USD"
              ELSE IF CarriesMarker({"€", "eur"}) THEN "EUR"
              ELSE IF CarriesMarker({"£", "gbp"}) THEN "GBP"
              ELSE None
        /\ call.raw = "₹1,299.00" => call.parsed = [price |-> 129900, currency |-> "INR"]
        /\ call.raw = "$19.99" => call.parsed = [price |-> 1999, currency |-> "USD"]
        /\ call.raw = "Free" => call.parsed = [price |-> NoNumber, currency |-> None]

\* a text with the markers of the dollar and of the rupee, the dollar
\* first, has come back as rupees
C31_Witness ==
    /\ PriceReturned
    /\ call.raw = "USD 1 INR 83"
    /\ call.parsed = [price |-> 100, currency |-> "INR"]

PathQuery ==
    Lower(UrlPath(call.product.product_url)) \o "?" \o Lower(UrlQuery(call.product.product_url))

\* the candidate in hand has a URL that is not blacklisted, and it lacks a
\* title or lacks a price
LacksTitleOrPrice ==
    /\ ValidReturned
    /\ call.product.product_url \notin {None, ""}
    /\ ~IsBlacklistedLink(call.product.product_url)
    /\ (CleanText(call.product.title) = None \/ call.product.price = NoNumber)

\* the path of the URL in hand holds a product path keyword
HoldsProductKeyword ==
    \E kw \in ProductKeywords : Contains(Lower(UrlPath(call.product.product_url)), kw)

\* the URL in hand is product-shaped: a product keyword in path?query, or,
\* without negative keyword there, a path with two slashes or more and
\* more than 3 characters, or a last path segment made of digits only
ProductShaped ==
    LET path == Lower(UrlPath(call.product.product_url))
        seg == SubSeq(path, LastOf(path, "/") + 1, Len(path))
    IN \/ \E kw \in ProductKeywords : Contains(PathQuery, kw)
       \/ /\ \A neg \in NegativeKeywords : ~Contains(PathQuery, neg)
          /\ \/ Count(path, "/") >= 2 /\ Len(path) > 3
             \/ seg # "" /\ \A i \in 1..Len(seg) : CharAt(seg, i) \in Digits

\* C33 as stated: a candidate whose URL path holds none of the product path
\* keywords and which lacks a title or lacks a price is rejected by
\* _is_valid_product; path depth and digits in the last path segment do
\* not make the URL acceptable.
C33_KeywordOnly ==
    (LacksTitleOrPrice /\ ~HoldsProductKeyword) => ~call.valid

\* C33 amended: a candidate whose URL is not product-shaped and which lacks
\* a title or lacks a price is rejected by _is_valid_product, a URL being
\* product-shaped when its path and query hold a product keyword or, in
\* the absence of a negative keyword, when its path has two slashes or
\* more and more than 3 characters or its last segment is made of digits.
C33_ShapeOrOverride ==
    (LacksTitleOrPrice /\ ~ProductShaped) => ~call.valid

\* a titled candidate without price whose path has two segments and a
\* negative keyword has been rejected
C33_Witness ==
    /\ ValidReturned
    /\ call.product = [title |-> "AB", product_url |-> "/search/shirts", price |-> NoNumber]
    /\ ~call.valid

\* ------------------------------------------------------------------- C34
\* the price text in hand holds a digit
HoldsDigit ==
    /\ call.raw \notin {None, ""}
    /\ \E i \in 1..Len(call.raw) : CharAt(call.raw, i) \in Digits

\* C34: for every price text that holds a digit _parse_price returns a
\* magnitude, the value of the first numeric token without its thousands
\* separators ("Rs. 500" yields 500); the price is null only for a text
\* without parsable number.
C34_FirstNumber ==
    (PriceReturned /\ HoldsDigit) =>
        /\ call.parsed.price # NoNumber
        /\ call.raw = "Rs. 500" => call.parsed.price = 50000

\* ------------------------------------------------------------------- C35
\* the message of the exception the i-th run of crawler.arun ended with
\* selects the retry
TimedOut(i) ==
    Len(call.render.raised) >= i /\
    (Contains(Lower(call.render.raised[i]), "timeout")
     \/ Contains(Lower(call.render.raised[i]), "wait condition failed"))

\* C35: heavy_render runs the renderer at most twice per URL: once with
\* the primary configuration and, only when that run fails with a timeout
\* or wait-condition error, once more on the same URL with the same script
\* steps, the wait condition dropped and image waiting disabled; any other
\* error, and a failure of the fallback run, returns an empty result
\* without further run, and the pipeline ends in the stage failed.
C35_OneFallback ==
    call.op = "heavy_render" =>
        LET r == call.render IN
        /\ Len(r.runs) <= 2
        /\ call.pc # "arun" => r.runs[1].wait_for_images /\ r.runs[1].url = r.url
        /\ Len(r.runs) = 2 =>
              /\ TimedOut(1)
              /\ r.runs[2] = [r.runs[1] EXCEPT !.wait_for = None, !.wait_for_images = FALSE]
        /\ (call.pc \in {"returned", "done"} /\ Len(r.raised) >= 1 /\ ~TimedOut(1)) =>
              Len(r.runs) = 1 /\ r.res = "None" /\ r.html_len = 0
        /\ (call.pc \in {"returned", "done"} /\ Len(r.raised) = 2) =>
              Len(r.runs) = 2 /\ r.res = "None" /\ r.html_len = 0
        /\ (call.pc = "done" /\ r.res = "None") => r.stage = "failed"
        /\ (call.pc = "retry") => Len(r.runs) = 1 /\ TimedOut(1)
        /\ (call.pc \in {"returned", "done"} /\ TimedOut(1)) => Len(r.runs) = 2

\* the first run waited for a selector and failed on the wait condition,
\* the fallback run failed as well, and the pipeline has ended as failed
C35_Witness ==
    /\ call.op = "heavy_render" /\ call.pc = "done"
    /\ Len(call.render.runs) = 2
    /\ call.render.runs[1].wait_for = "css:.product, .item"
    /\ call.render.raised[1] = "Wait condition failed: css:.product"
    /\ Len(call.render.raised) = 2
    /\ call.render.stage = "failed"

\* ------------------------------------------------------------------- C36
\* _extract_products_from_json has returned for the value in hand
JsonReturned == call.op = "_extract_products_from_json" /\ call.pc = "returned"

\* the depth below the root at which the products of the value in hand lie
ProductDepth ==
    CASE call.shape.leaf = "object" -> call.shape.nest
      [] call.shape.leaf = "array" -> call.shape.nest + 1
      [] call.shape.leaf = "wix" -> call.shape.nest + 2

\* the depth below the root of the value that is searched for the products:
\* the product object itself, or the dict with the "products" list
SearchedDepth ==
    IF call.shape.leaf = "wix" THEN call.shape.nest ELSE ProductDepth

\* C36 as stated: _extract_products_from_json terminates, inspects no node
\* deeper than depth 5 below its root, so that products that lie below
\* that depth only are not returned, and returns max_items entries at most.
C36_NothingBelowFive ==
    JsonReturned =>
        /\ ProductDepth > 5 => call.out = <<>>
        /\ Len(call.out) <= call.max_items

\* C36 amended: _extract_products_from_json terminates and searches no
\* value deeper than depth 5 below its root, the entries of the "products"
\* list of a dict it searches being read in place as Wix products: products
\* are returned when the value searched for them lies at depth 5 or less,
\* and not returned when it lies deeper; the result has max_items entries
\* at most (max_items >= 1).
C36_NoSearchBelowFive ==
    JsonReturned =>
        /\ SearchedDepth > 5 => call.out = <<>>
        /\ SearchedDepth <= 5 => call.out # <<>>
        /\ Len(call.out) <= call.max_items

\* the Wix product two levels below a dict at depth 5 has been returned
C36_Witness ==
    /\ JsonReturned
    /\ call.shape = [nest |-> 5, wrap |-> "mixed", leaf |-> "wix"]
    /\ Len(call.out) = 1
    /\ call.out[1].product_url = "https://s.io/product-page/wix-mug"

\* ------------------------------------------------------------------- C37
\* x is null or a number from 0 to bound
NullOrWithin(x, bound) ==
    \/ x.k = "none"
    \/ x.k = "num" /\ ~BelowZero(x) /\ ~Above(x, bound)

\* C37: every record save_products_to_supabase hands to the product store
\* has a rating that is null or within [0, 100], a current_price that is
\* null or within [0, 999999999.99], a reviews value that is null or within
\* the signed 32-bit range, a non-empty product_name of 500 characters at
\* most and a non-empty product_url of 2048 characters at most; a
\* candidate without title or URL is not inserted.
C37_RecordInRange ==
    call.op = "save_products_to_supabase" =>
        /\ call.pc = "insert" =>
              /\ NullOrWithin(call.db_data.rating, RatingMax)
              /\ NullOrWithin(call.db_data.current_price, PriceMax)
              /\ NullOrWithin(call.db_data.reviews, Int32Max)
              /\ Len(call.db_data.product_name) \in 1..500
              /\ Len(call.db_data.product_url) \in 1..2048
        /\ (call.pc # "call" /\ (call.cand.title \in {None, ""} \/ call.cand.product_url \in {None, ""}))
              => call.pc = "skipped"

\* ---------------------------------------------------------------- C38
\* the process_url task of row i has started and has neither returned,
\* raised nor been cancelled
InFlight(i) == pipe[i].pc \notin {"none", "done", "raised", "cancelled"}

\* every permit of the three gates is free
AllPermitsFree ==
    /\ global_sem = GLOBAL_CONCURRENCY
    /\ heavy_sem = HEAVY_CONCURRENCY
    /\ \A d \in DOMAIN domain_locks : domain_locks[d] = PER_DOMAIN_LIMIT

\* C38: the admission gates neither deadlock nor leak.  When every network,
\* render and store call returns or raises, the worker comes again and
\* again to a state with no process_url task in flight, so that every task
\* that has started ends (it returns, it raises, or it is cancelled when
\* the run is given up) and none waits at a gate for ever; and whenever no
\* task is in flight every permit of the global gate, of each per-domain
\* gate and of the heavy gate is free, also after tasks that ended in the
\* failed or the exception state.
C38_GatesLiveNoLeak ==
    /\ []((\A i \in Items : ~InFlight(i)) => AllPermitsFree)
    /\ []<>(\A i \in Items : ~InFlight(i))

\* a batch is over after one task ended in the exception state and the
\* other, holding permits, was cancelled; every gate is whole again
C38_Witness ==
    /\ last.stage = "exception"
    /\ \E i \in Items : pipe[i].pc = "cancelled"
    /\ \A i \in Items : ~InFlight(i)
    /\ DOMAIN domain_locks # {}
    /\ AllPermitsFree

\* ---------------------------------------------------------------- C39
\* C39: in every outcome a pipeline writes back products_saved is at most
\* products_found, and unless the pipeline ended in the exception state the
\* row is marked completed exactly when products_found > 0, whatever
\* products_saved is.
C39_SavedWithinFound ==
    /\ last.wb = 1 =>
          /\ last.saved <= last.found
          /\ last.stage # "exception" => (last.ok <=> last.found > 0)
    /\ \A i \in Items :
          store[i].processing_status \in {"completed", "failed"} =>
             /\ store[i].products_saved <= store[i].products_found
             /\ store[i].processing_status = "completed" => store[i].products_found > 0

\* ---------------------------------------------------------------- C40
\* C40: the restart wrapper keeps at most one child process alive at any
\* time: a child is started only when every child started before has exited
\* on its own or was terminated (killed if needed) at the 20-minute limit,
\* also in a cycle that follows an error and the 10-second pause.
C40_OneChild ==
    call.op = "restart_wrapper.main" => Cardinality(Alive(call.wrapper)) <= 1

====
